---- MODULE Spec2Model ----
(***************************************************************************)
(* OBSIDIAN MM: regime classifier, unusualness scorer, daily pipeline and  *)
(* baseline storage, modelled from the Python sources.                     *)
(*                                                                         *)
(* Fixed-point conventions (all numbers are integers):                     *)
(*   z-scores                 hundredths of a sigma   (1.5 sigma = 150)    *)
(*   percentiles, dark pool % whole percents          (60 % = 60)          *)
(*   price_change_pct         hundredths of a percent (0.5 % = 50)         *)
(*   confidence               1/10000                 (0.5 = 5000)         *)
(*   score weights            thousandths             (0.25 = 250)         *)
(*   raw scores               1/100000                (1.5 = 150000)       *)
(*   scores                   tenths                  (100.0 = 1000)       *)
(* A feature value is a record: a number, NaN, or absent from the map.     *)
(***************************************************************************)
EXTENDS Integers, Sequences, FiniteSets, TLC

VARIABLES
    clsFeatures,    \* the pd.Series handed to RegimeClassifier.classify
    clsResult,      \* the RegimeResult it returned (NoResult before the call)
    scoreWeights,   \* the weights of SCORE_COMPONENTS, in component order
    engState,       \* UnusualnessEngine: "none", "ready", or "error" (ValueError)
    history_window, \* UnusualnessEngine.history_window
    score_history,  \* UnusualnessEngine._score_history
    recorded,       \* every raw score ever put in the history, oldest first
    lastScore,      \* the UnusualnessResult of the last calculate call
    calls,          \* number of calculate / add_historical_score calls so far
    plStorage,      \* DailyPipeline.baseline_storage: ticker -> stored baseline
    plBaselines,    \* DailyPipeline._baselines: ticker -> cached baseline
    require_baseline, \* DailyPipeline.require_baseline
    plQueue,        \* run_batch: the tickers still to be run
    plResults,      \* run_batch: the DailyResults collected so far
    plScoreHistory, \* DailyPipeline.scorer._score_history
    plScoreOwner,   \* for each entry of plScoreHistory, the ticker it was scored for
    plRuns,         \* number of run() calls so far
    stFile,         \* the baseline JSON file of one ticker
    stCommitted,    \* version of the last baseline whose save completed (-1: none)
    stSave,         \* BaselineStorage.save in progress
    stLoad,         \* BaselineStorage.load in progress, and its return value
    clsTopDrivers,  \* RegimeResult.top_drivers of the classify call
    rwWindow,       \* RollingWindowCalculator.window, the maxlen of its deque
    rwValues,       \* RollingWindowCalculator._values, oldest first
    rwInputs,       \* every value handed to add / add_batch so far, NaN included
    nmConfig,       \* NormalizationPipeline: baseline distribution, window, min_observations
    nmValues,       \* the rolling buffer of the feature being normalized
    nmResult,       \* outcome of the last normalize() call
    fnArgs,         \* arguments of a call of a pure function
    fnResult        \* what the call returned (NoCall before the call)

clsVars == <<clsFeatures, clsResult, clsTopDrivers>>
scVars == <<scoreWeights, engState, history_window, score_history, recorded,
            lastScore, calls>>
plVars == <<plStorage, plBaselines, require_baseline, plQueue, plResults,
            plScoreHistory, plScoreOwner, plRuns>>
stVars == <<stFile, stCommitted, stSave, stLoad>>
rwVars == <<rwWindow, rwValues, rwInputs>>
nmVars == <<nmConfig, nmValues, nmResult>>
fnVars == <<fnArgs, fnResult>>
extVars == <<rwVars, nmVars, fnVars>>
vars == <<clsVars, scVars, plVars, stVars, extVars>>

----------------------------------------------------------------------------
(* Feature values *)

Num(x) == [kind |-> "num", v |-> x]
NaN == [kind |-> "nan", v |-> 0]
Absent == [kind |-> "absent", v |-> 0]

IsNum(x) == x.kind = "num"

\* pd.isna(value) / value is None, for the result of Series.get(key)
IsMissing(x) == x.kind \in {"absent", "nan"}

\* Series.get(key, default): the default only replaces an absent key
Get(f, k, d) == IF f[k].kind = "absent" THEN d ELSE f[k]

\* IEEE comparisons: any comparison with NaN is false
GT(x, c) == IsNum(x) /\ x.v > c
LT(x, c) == IsNum(x) /\ x.v < c
GE(x, c) == IsNum(x) /\ x.v >= c
LE(x, c) == IsNum(x) /\ x.v <= c

Abs(x) == IF x < 0 THEN -x ELSE x
Min(a, b) == IF a < b THEN a ELSE b
Max(a, b) == IF a > b THEN a ELSE b

----------------------------------------------------------------------------
(* core/constants.py: regime thresholds *)

GEX_EXTREME_POSITIVE == 150
GEX_EXTREME_NEGATIVE == -150
DEX_ELEVATED == 100
DARK_POOL_DOMINANT == 70
DARK_POOL_ELEVATED == 50
BLOCK_ACTIVITY_ELEVATED == 100
PRICE_STABLE_LOW == -50
PRICE_STABLE_HIGH == 50
PRICE_EFFICIENCY_LOW == 50
IMPACT_PER_VOL_HIGH == 50

\* core/types.py RegimeLabel
RegimeLabel ==
    {"GAMMA_POSITIVE_CONTROL", "GAMMA_NEGATIVE_VACUUM",
     "DARK_DOMINANT_ACCUMULATION", "ABSORPTION_LIKE", "DISTRIBUTION_LIKE",
     "NEUTRAL", "UNDETERMINED"}

MINIMUM_REQUIRED_FEATURES == <<"gex_zscore", "dex_zscore">>

----------------------------------------------------------------------------
(* regimes/classifier.py *)

ClsKeys ==
    {"gex_zscore", "dex_zscore", "dark_pool_ratio_pct", "dark_pool_ratio",
     "price_efficiency_pct", "impact_per_vol_pct",
     "block_trade_count_zscore", "price_change_pct"}

\* the rule list with the dark-pool rule ranked above the gamma-negative rule
rulesDarkPoolFirst ==
    << [label |-> "GAMMA_POSITIVE_CONTROL", priority |-> 1],
       [label |-> "DARK_DOMINANT_ACCUMULATION", priority |-> 2],
       [label |-> "GAMMA_NEGATIVE_VACUUM", priority |-> 3],
       [label |-> "ABSORPTION_LIKE", priority |-> 4],
       [label |-> "DISTRIBUTION_LIKE", priority |-> 5] >>

\* _build_rules: the five rules, sorted by priority
rules ==
    << [label |-> "GAMMA_POSITIVE_CONTROL", priority |-> 1],
       [label |-> "GAMMA_NEGATIVE_VACUUM", priority |-> 2],
       [label |-> "DARK_DOMINANT_ACCUMULATION", priority |-> 3],
       [label |-> "ABSORPTION_LIKE", priority |-> 4],
       [label |-> "DISTRIBUTION_LIKE", priority |-> 5] >>

\* f.get("dark_pool_ratio_pct", f.get("dark_pool_ratio", 0))
DarkPoolPct(f) ==
    Get(f, "dark_pool_ratio_pct", Get(f, "dark_pool_ratio", Num(0)))

_check_gamma_positive(f) ==
    /\ GT(Get(f, "gex_zscore", Num(0)), GEX_EXTREME_POSITIVE)
    /\ LT(DarkPoolPct(f), 60)
    /\ LT(Get(f, "price_efficiency_pct", Num(50)), PRICE_EFFICIENCY_LOW)

_check_gamma_negative(f) ==
    /\ LT(Get(f, "gex_zscore", Num(0)), GEX_EXTREME_NEGATIVE)
    /\ GT(Get(f, "impact_per_vol_pct", Num(50)), IMPACT_PER_VOL_HIGH)

_check_dark_dominant(f) ==
    /\ GT(DarkPoolPct(f), DARK_POOL_DOMINANT)
    /\ GT(Get(f, "block_trade_count_zscore", Num(0)), BLOCK_ACTIVITY_ELEVATED)

\* _check_absorption with a strict comparison of the price change
_check_absorption_strict(f) ==
    /\ LT(Get(f, "dex_zscore", Num(0)), -DEX_ELEVATED)
    /\ GT(Get(f, "price_change_pct", Num(0)), PRICE_STABLE_LOW)
    /\ GT(DarkPoolPct(f), DARK_POOL_ELEVATED)

_check_absorption(f) ==
    /\ LT(Get(f, "dex_zscore", Num(0)), -DEX_ELEVATED)
    /\ GE(Get(f, "price_change_pct", Num(0)), PRICE_STABLE_LOW)
    /\ GT(DarkPoolPct(f), DARK_POOL_ELEVATED)

_check_distribution(f) ==
    /\ GT(Get(f, "dex_zscore", Num(0)), DEX_ELEVATED)
    /\ LE(Get(f, "price_change_pct", Num(0)), PRICE_STABLE_HIGH)

\* rule.check(features), dispatched on the rule's label
RuleCheck(label, f) ==
    CASE label = "GAMMA_POSITIVE_CONTROL" -> _check_gamma_positive(f)
      [] label = "GAMMA_NEGATIVE_VACUUM" -> _check_gamma_negative(f)
      [] label = "DARK_DOMINANT_ACCUMULATION" -> _check_dark_dominant(f)
      [] label = "ABSORPTION_LIKE" -> _check_absorption(f)
      [] label = "DISTRIBUTION_LIKE" -> _check_distribution(f)

\* the confidence without the ceiling of 1.0
ClampConfidenceNoCeiling(num, den, scale) ==
    Max(5000, 5000 + (num * scale) \div den)

\* min(1.0, max(0.5, base_confidence + margin * scale)), margin = num/den
ClampConfidence(num, den, scale) ==
    Min(10000, Max(5000, 5000 + (num * scale) \div den))

_calculate_confidence(label, f) ==
    CASE label = "GAMMA_POSITIVE_CONTROL" ->
            ClampConfidence(Get(f, "gex_zscore", Num(0)).v - GEX_EXTREME_POSITIVE,
                            GEX_EXTREME_POSITIVE, 3000)
      [] label = "GAMMA_NEGATIVE_VACUUM" ->
            ClampConfidence(-Get(f, "gex_zscore", Num(0)).v - Abs(GEX_EXTREME_NEGATIVE),
                            Abs(GEX_EXTREME_NEGATIVE), 3000)
      [] label = "DARK_DOMINANT_ACCUMULATION" ->
            ClampConfidence(DarkPoolPct(f).v - DARK_POOL_DOMINANT, 30, 3000)
      [] label = "ABSORPTION_LIKE" ->
            ClampConfidence(-Get(f, "dex_zscore", Num(0)).v - DEX_ELEVATED,
                            DEX_ELEVATED, 2500)
      [] label = "DISTRIBUTION_LIKE" ->
            ClampConfidence(Get(f, "dex_zscore", Num(0)).v - DEX_ELEVATED,
                            DEX_ELEVATED, 2500)
      [] OTHER -> 5000

\* a completeness check that looks at the first required feature only
CheckFirstRequiredOnly(f) ==
    SelectSeq(SubSeq(MINIMUM_REQUIRED_FEATURES, 1, 1), LAMBDA k : IsMissing(f[k]))

\* the critical features that are None or NaN, in list order
_check_data_completeness(f) ==
    SelectSeq(MINIMUM_REQUIRED_FEATURES, LAMBDA k : IsMissing(f[k]))

RegimeResult(label, confidence, missing) ==
    [label |-> label, confidence |-> confidence, missing |-> missing]

NoResult == RegimeResult("none", 0, <<>>)

\* a rule loop that falls off its end without the NEUTRAL default, so that
\* the function returns None
RECURSIVE EvaluateRulesNoDefault(_, _)
EvaluateRulesNoDefault(f, i) ==
    IF i > Len(rules)
    THEN RegimeResult("None", 0, <<>>)
    ELSE IF RuleCheck(rules[i].label, f)
         THEN RegimeResult(rules[i].label,
                           _calculate_confidence(rules[i].label, f), <<>>)
         ELSE EvaluateRulesNoDefault(f, i + 1)

\* the rule loop of classify, from rule i on; NEUTRAL when the list is exhausted
RECURSIVE EvaluateRules(_, _)
EvaluateRules(f, i) ==
    IF i > Len(rules)
    THEN RegimeResult("NEUTRAL", 5000, <<>>)
    ELSE IF RuleCheck(rules[i].label, f)
         THEN RegimeResult(rules[i].label,
                           _calculate_confidence(rules[i].label, f), <<>>)
         ELSE EvaluateRules(f, i + 1)

classify(f) ==
    LET missing_features == _check_data_completeness(f)
    IN  IF missing_features # <<>>
        THEN RegimeResult("UNDETERMINED", 0, missing_features)
        ELSE EvaluateRules(f, 1)

\* the index of the feature Series, in its order, for the columns the model
\* follows
SeriesIndex ==
    <<"dark_pool_ratio_pct", "price_change_pct", "dark_pool_ratio",
      "price_efficiency_pct", "impact_per_vol_pct", "gex_zscore", "dex_zscore",
      "block_trade_count_zscore", "venue_shift_zscore", "iv_skew_zscore">>

\* c.endswith("_zscore")
EndsWithZscore(c) ==
    c \in {"gex_zscore", "dex_zscore", "block_trade_count_zscore",
           "venue_shift_zscore", "iv_skew_zscore"}

\* col.replace("_zscore", "")
RemoveZscoreSuffix(col) ==
    CASE col = "gex_zscore" -> "gex"
      [] col = "dex_zscore" -> "dex"
      [] col = "block_trade_count_zscore" -> "block_trade_count"
      [] col = "venue_shift_zscore" -> "venue_shift"
      [] col = "iv_skew_zscore" -> "iv_skew"
      [] OTHER -> col

\* core/types.py TopDriver; zscore in hundredths, contribution_pct in
\* hundredths of a percent
TopDriver(feature, zscore, contribution_pct, direction) ==
    [feature |-> feature, zscore |-> zscore,
     contribution_pct |-> contribution_pct, direction |-> direction]

\* sorted(..., key=abs value, reverse=True): a stable sort, so that columns of
\* equal magnitude keep their index order
RECURSIVE SortByMagnitude(_, _)
SortByMagnitude(f, cols) ==
    IF cols = <<>>
    THEN <<>>
    ELSE LET rest == SortByMagnitude(f, Tail(cols))
             col == Head(cols)
             larger == SelectSeq(rest, LAMBDA c : Abs(f[c].v) > Abs(f[col].v))
             others == SelectSeq(rest, LAMBDA c : Abs(f[c].v) <= Abs(f[col].v))
         IN  larger \o <<col>> \o others

\* sum(abs_val for _, abs_val, _ in sorted_features)
RECURSIVE TotalMagnitude(_, _)
TotalMagnitude(f, cols) ==
    IF cols = <<>> THEN 0 ELSE Abs(f[Head(cols)].v) + TotalMagnitude(f, Tail(cols))

\* the drivers of the first n columns in index order, without the sort
_get_top_drivers_unsorted(f, n) ==
    LET zscore_cols ==
            SelectSeq(SeriesIndex,
                      LAMBDA c : c \in DOMAIN f /\ f[c].kind # "absent"
                                 /\ EndsWithZscore(c))
        sorted_features == SelectSeq(zscore_cols, LAMBDA c : f[c].kind = "num")
        total_magnitude ==
            TotalMagnitude(f, sorted_features)
        top == SubSeq(sorted_features, 1, Min(n, Len(sorted_features)))
    IN  [i \in 1..Len(top) |->
            TopDriver(RemoveZscoreSuffix(top[i]),
                      f[top[i]].v,
                      IF total_magnitude > 0
                      THEN (Abs(f[top[i]].v) * 10000) \div total_magnitude
                      ELSE 0,
                      IF f[top[i]].v > 0 THEN "elevated" ELSE "depressed")]

_get_top_drivers(f, n) ==
    LET zscore_cols ==
            SelectSeq(SeriesIndex,
                      LAMBDA c : c \in DOMAIN f /\ f[c].kind # "absent"
                                 /\ EndsWithZscore(c))
        sorted_features ==
            SortByMagnitude(f, SelectSeq(zscore_cols, LAMBDA c : f[c].kind = "num"))
        total_magnitude ==
            TotalMagnitude(f, sorted_features)
        top == SubSeq(sorted_features, 1, Min(n, Len(sorted_features)))
    IN  [i \in 1..Len(top) |->
            TopDriver(RemoveZscoreSuffix(top[i]),
                      f[top[i]].v,
                      IF total_magnitude > 0
                      THEN (Abs(f[top[i]].v) * 10000) \div total_magnitude
                      ELSE 0,
                      IF f[top[i]].v > 0 THEN "elevated" ELSE "depressed")]

\* the top_drivers field of the result of classify
top_drivers(f) ==
    IF _check_data_completeness(f) # <<>>
    THEN <<>>
    ELSE _get_top_drivers(f, 3)

----------------------------------------------------------------------------
(* Inputs of the classifier *)

GexValues == {Absent, NaN, Num(-250), Num(150), Num(200)}
DexValues == {Absent, NaN, Num(-200), Num(0), Num(200)}
DarkPctValues == {Absent, NaN, Num(45), Num(80)}
DarkRatioValues == {Absent, Num(80)}
EfficiencyValues == {Absent, Num(30), Num(50)}
ImpactValues == {Absent, Num(50), Num(70)}
BlockValues == {Absent, Num(100), Num(200)}
PriceChangeValues == {Absent, NaN, Num(-100), Num(0), Num(100)}

FeatureMaps ==
    {[gex_zscore |-> gex, dex_zscore |-> dex, dark_pool_ratio_pct |-> dpp,
      dark_pool_ratio |-> dpr, price_efficiency_pct |-> eff,
      impact_per_vol_pct |-> imp, block_trade_count_zscore |-> blk,
      price_change_pct |-> pch] :
        gex \in GexValues, dex \in DexValues, dpp \in DarkPctValues,
        dpr \in DarkRatioValues, eff \in EfficiencyValues,
        imp \in ImpactValues, blk \in BlockValues, pch \in PriceChangeValues}

\* feature maps whose triggering metrics lie below, just above and far above
\* the thresholds
ConfidenceFeatureMaps ==
    {[gex_zscore |-> gex, dex_zscore |-> dex, dark_pool_ratio_pct |-> dpp,
      dark_pool_ratio |-> dpr, price_efficiency_pct |-> Num(30),
      impact_per_vol_pct |-> Num(70), block_trade_count_zscore |-> blk,
      price_change_pct |-> Num(0)] :
        gex \in {NaN, Num(-700), Num(-250), Num(0), Num(151), Num(200), Num(700)},
        dex \in {Num(-500), Num(-200), Num(0), Num(101), Num(200), Num(500)},
        dpp \in {Absent, Num(45), Num(80), Num(100)},
        dpr \in {Absent, Num(90)},
        blk \in {Num(0), Num(200)}}

\* feature maps with up to five z-score columns
DriverFeatureMaps ==
    {[gex_zscore |-> gex, dex_zscore |-> dex, dark_pool_ratio_pct |-> dpp,
      dark_pool_ratio |-> Absent, price_efficiency_pct |-> Num(30),
      impact_per_vol_pct |-> Num(70), block_trade_count_zscore |-> blk,
      price_change_pct |-> Num(0), venue_shift_zscore |-> vs,
      iv_skew_zscore |-> iv] :
        gex \in {NaN, Num(-250), Num(0), Num(200)},
        dex \in {Num(-200), Num(0), Num(200)},
        dpp \in {Num(45), Num(80)},
        blk \in {Absent, NaN, Num(200), Num(-300)},
        vs \in {Absent, Num(0), Num(250)},
        iv \in {Absent, Num(-200), Num(100)}}

\* feature maps with every feature present, on and next to each threshold
BoundaryFeatureMaps ==
    {[gex_zscore |-> Num(gex), dex_zscore |-> Num(dex),
      dark_pool_ratio_pct |-> Num(dpp), dark_pool_ratio |-> dpr,
      price_efficiency_pct |-> Num(eff), impact_per_vol_pct |-> Num(imp),
      block_trade_count_zscore |-> Num(blk), price_change_pct |-> Num(pch)] :
        gex \in {-151, -150, 150, 151},
        dex \in {-101, -100, 100, 101},
        dpp \in {50, 51, 59, 60, 70, 71},
        dpr \in {Absent, Num(80)},
        eff \in {49, 50},
        imp \in {50, 51},
        blk \in {100, 101},
        pch \in {-51, -50, 50, 51}}

\* RegimeClassifier.classify(features)
Classify ==
    /\ clsResult = NoResult
    /\ clsResult' = classify(clsFeatures)
    /\ clsTopDrivers' = top_drivers(clsFeatures)
    /\ UNCHANGED <<clsFeatures, scVars, plVars, stVars, extVars>>

----------------------------------------------------------------------------
(* scoring/unusualness.py *)

\* core/constants.py SCORE_WEIGHTS, in SCORE_COMPONENTS order
SCORE_WEIGHTS == <<250, 250, 200, 150, 150>>

\* SCORE_COMPONENTS: pct_col "" stands for None
SCORE_COMPONENTS ==
    << [name |-> "dark_pool_activity", zscore_col |-> "dark_pool_ratio_zscore",
        pct_col |-> "dark_pool_ratio_pct"],
       [name |-> "gamma_exposure", zscore_col |-> "gex_zscore", pct_col |-> ""],
       [name |-> "venue_shift", zscore_col |-> "venue_shift_zscore", pct_col |-> ""],
       [name |-> "block_activity", zscore_col |-> "block_trade_count_zscore",
        pct_col |-> "block_trade_count_pct"],
       [name |-> "iv_skew", zscore_col |-> "iv_skew_zscore", pct_col |-> ""] >>

ScoreKeys ==
    {"dark_pool_ratio_zscore", "dark_pool_ratio_pct", "gex_zscore",
     "venue_shift_zscore", "block_trade_count_zscore", "block_trade_count_pct",
     "iv_skew_zscore"}

RECURSIVE SumSeq(_)
SumSeq(s) == IF s = <<>> THEN 0 ELSE Head(s) + SumSeq(Tail(s))

\* (pct - 50) / 25, as a z-score in hundredths
_percentile_to_zscore(pct) == 4 * (pct - 50)

\* the component's z-score without the percentile tier
ComponentZscoreNoFallback(comp, f) ==
    IF ~IsMissing(f[comp.zscore_col])
    THEN f[comp.zscore_col].v
    ELSE 0

\* Step 1 of calculate: the component's z-score by the three-tier fallback
ComponentZscore(comp, f) ==
    IF ~IsMissing(f[comp.zscore_col])
    THEN f[comp.zscore_col].v
    ELSE IF comp.pct_col # "" /\ ~IsMissing(f[comp.pct_col])
         THEN _percentile_to_zscore(f[comp.pct_col].v)
         ELSE 0

\* the weighted sum of the signed z-scores
RawScoreSigned(weights, f) ==
    SumSeq([i \in 1..Len(SCORE_COMPONENTS) |->
               weights[i] * ComponentZscore(SCORE_COMPONENTS[i], f)])

\* Steps 1-2: raw_score = sum of weight * abs(zscore)
RawScore(weights, f) ==
    SumSeq([i \in 1..Len(SCORE_COMPONENTS) |->
               weights[i] * Abs(ComponentZscore(SCORE_COMPONENTS[i], f))])

\* lst[-w:] as Python evaluates it: -0 is 0, so lst[-0:] is the whole list
SliceLast(lst, w) ==
    IF w = 0 \/ Len(lst) <= w
    THEN lst
    ELSE SubSeq(lst, Len(lst) - w + 1, Len(lst))

\* Step 3 of calculate, and add_historical_score: append, then trim
AppendToHistory(h, w, raw) ==
    LET appended == Append(h, raw)
    IN  IF Len(appended) > w THEN SliceLast(appended, w) ELSE appended

\* round(num / den, 0) to the nearest integer, ties to even
RoundHalfEven(num, den) ==
    LET q == num \div den
        r == num % den
    IN  IF 2 * r < den THEN q
        ELSE IF 2 * r > den THEN q + 1
        ELSE IF q % 2 = 0 THEN q ELSE q + 1

\* round(_sigmoid_scale(x) * 100, 1) is a non-decreasing step function of the
\* raw score: SigmoidSteps[i] is the smallest raw score (1/100000) whose
\* rounded sigmoid score is at least SigmoidFloor + i tenths.
SigmoidFloor == 95

SigmoidSteps ==
    << 117, 885, 1646, 2400, 3148, 3888, 4623, 5350, 6072, 6787,
       7497, 8200, 8898, 9590, 10277, 10958, 11633, 12303, 12969, 13629,
       14284, 14934, 15579, 16220, 16856, 17487, 18114, 18736, 19354, 19968,
       20577, 21183, 21784, 22381, 22975, 23564, 24150, 24732, 25310, 25884,
       26455, 27023, 27586, 28147, 28704, 29258, 29808, 30355, 30899, 31440,
       31978, 32512, 33044, 33573, 34099, 34622, 35142, 35659, 36173, 36685,
       37194, 37700, 38204, 38705, 39204, 39700, 40193, 40684, 41173, 41659,
       42143, 42625, 43104, 43581, 44055, 44528, 44998, 45466, 45932, 46396,
       46858, 47318, 47775, 48231, 48685, 49136, 49586, 50034, 50480, 50924,
       51366, 51806, 52245, 52681, 53116, 53550, 53981, 54411, 54839, 55265,
       55690, 56113, 56534, 56954, 57372, 57789, 58204, 58618, 59030, 59440,
       59849, 60257, 60663, 61068, 61471, 61873, 62273, 62672, 63070, 63466,
       63861, 64255, 64647, 65039, 65428, 65817, 66204, 66590, 66975, 67358,
       67741, 68122, 68502, 68880, 69258, 69634, 70010, 70384, 70757, 71129,
       71500, 71870, 72238, 72606, 72972, 73338, 73702, 74066, 74428, 74790,
       75150, 75509, 75868, 76225, 76582, 76937, 77292, 77646, 77998, 78350,
       78701, 79051, 79400, 79749, 80096, 80442, 80788, 81133, 81477, 81820,
       82162, 82504, 82844, 83184, 83523, 83861, 84199, 84535, 84871, 85207,
       85541, 85875, 86207, 86540, 86871, 87202, 87532, 87861, 88189, 88517,
       88844, 89171, 89497, 89822, 90146, 90470, 90793, 91116, 91437, 91759,
       92079, 92399, 92718, 93037, 93355, 93673, 93989, 94306, 94621, 94937,
       95251, 95565, 95878, 96191, 96503, 96815, 97126, 97437, 97747, 98056,
       98365, 98674, 98982, 99289, 99596, 99902, 100208, 100513, 100818, 101123,
       101427, 101730, 102033, 102335, 102637, 102939, 103240, 103541, 103841, 104140,
       104440, 104738, 105037, 105335, 105632, 105929, 106226, 106522, 106818, 107114,
       107409, 107703, 107997, 108291, 108585, 108878, 109170, 109463, 109755, 110046,
       110337, 110628, 110918, 111208, 111498, 111788, 112077, 112365, 112653, 112941,
       113229, 113516, 113803, 114090, 114376, 114662, 114948, 115233, 115518, 115803,
       116088, 116372, 116656, 116939, 117222, 117505, 117788, 118070, 118353, 118634,
       118916, 119197, 119478, 119759, 120040, 120320, 120600, 120879, 121159, 121438,
       121717, 121996, 122274, 122553, 122831, 123108, 123386, 123663, 123940, 124217,
       124494, 124770, 125047, 125323, 125598, 125874, 126149, 126424, 126699, 126974,
       127249, 127523, 127798, 128072, 128345, 128619, 128893, 129166, 129439, 129712,
       129985, 130257, 130530, 130802, 131074, 131346, 131618, 131890, 132161, 132433,
       132704, 132975, 133246, 133517, 133788, 134058, 134329, 134599, 134869, 135139,
       135409, 135679, 135949, 136218, 136488, 136757, 137026, 137296, 137565, 137834,
       138102, 138371, 138640, 138908, 139177, 139445, 139713, 139982, 140250, 140518,
       140786, 141054, 141322, 141589, 141857, 142125, 142392, 142660, 142927, 143195,
       143462, 143729, 143996, 144264, 144531, 144798, 145065, 145332, 145599, 145866,
       146133, 146400, 146666, 146933, 147200, 147467, 147734, 148000, 148267, 148534,
       148800, 149067, 149334, 149600, 149867, 150134, 150401, 150667, 150934, 151201,
       151467, 151734, 152001, 152267, 152534, 152801, 153068, 153335, 153601, 153868,
       154135, 154402, 154669, 154936, 155203, 155470, 155737, 156005, 156272, 156539,
       156806, 157074, 157341, 157609, 157876, 158144, 158412, 158679, 158947, 159215,
       159483, 159751, 160019, 160288, 160556, 160824, 161093, 161361, 161630, 161899,
       162167, 162436, 162705, 162975, 163244, 163513, 163783, 164052, 164322, 164592,
       164862, 165132, 165402, 165672, 165943, 166213, 166484, 166755, 167026, 167297,
       167568, 167840, 168111, 168383, 168655, 168927, 169199, 169471, 169744, 170016,
       170289, 170562, 170835, 171108, 171382, 171656, 171929, 172203, 172478, 172752,
       173027, 173302, 173577, 173852, 174127, 174403, 174678, 174954, 175231, 175507,
       175784, 176061, 176338, 176615, 176893, 177170, 177448, 177727, 178005, 178284,
       178563, 178842, 179122, 179401, 179681, 179961, 180242, 180523, 180804, 181085,
       181367, 181648, 181931, 182213, 182496, 182779, 183062, 183345, 183629, 183913,
       184198, 184483, 184768, 185053, 185339, 185625, 185911, 186198, 186485, 186772,
       187060, 187348, 187636, 187924, 188213, 188503, 188793, 189083, 189373, 189664,
       189955, 190246, 190538, 190831, 191123, 191416, 191710, 192004, 192298, 192592,
       192887, 193183, 193479, 193775, 194072, 194369, 194666, 194964, 195263, 195561,
       195861, 196160, 196460, 196761, 197062, 197364, 197666, 197968, 198271, 198574,
       198878, 199183, 199488, 199793, 200099, 200405, 200712, 201019, 201327, 201636,
       201945, 202254, 202564, 202875, 203186, 203498, 203810, 204123, 204436, 204750,
       205064, 205380, 205695, 206012, 206328, 206646, 206964, 207283, 207602, 207922,
       208242, 208564, 208885, 209208, 209531, 209855, 210179, 210504, 210830, 211157,
       211484, 211812, 212140, 212469, 212799, 213130, 213461, 213794, 214126, 214460,
       214794, 215130, 215466, 215802, 216140, 216478, 216817, 217157, 217497, 217839,
       218181, 218524, 218868, 219213, 219559, 219905, 220252, 220601, 220950, 221300,
       221651, 222003, 222355, 222709, 223064, 223419, 223776, 224133, 224492, 224851,
       225211, 225573, 225935, 226299, 226663, 227029, 227395, 227763, 228131, 228501,
       228872, 229244, 229617, 229991, 230367, 230743, 231121, 231499, 231879, 232260,
       232643, 233026, 233411, 233797, 234184, 234573, 234962, 235354, 235746, 236140,
       236535, 236931, 237329, 237728, 238128, 238530, 238933, 239338, 239744, 240152,
       240561, 240971, 241383, 241797, 242212, 242629, 243047, 243467, 243888, 244311,
       244736, 245162, 245590, 246020, 246451, 246885, 247320, 247756, 248195, 248635,
       249077, 249521, 249967, 250415, 250865, 251316, 251770, 252226, 252683, 253143,
       253605, 254069, 254535, 255003, 255473, 255946, 256420, 256897, 257376, 257858,
       258342, 258828, 259317, 259808, 260301, 260797, 261296, 261797, 262301, 262807,
       263316, 263828, 264342, 264859, 265379, 265902, 266428, 266957, 267489, 268023,
       268561, 269102, 269646, 270193, 270743, 271297, 271854, 272415, 272978, 273546,
       274117, 274691, 275269, 275851, 276437, 277026, 277620, 278217, 278818, 279424,
       280033, 280647, 281265, 281887, 282514, 283145, 283781, 284422, 285067, 285717,
       286372, 287032, 287698, 288368, 289043, 289724, 290411, 291103, 291801, 292504,
       293214, 293929, 294651, 295378, 296113, 296853, 297601, 298355, 299116, 299884,
       300660, 301442, 302233, 303031, 303837, 304651, 305473, 306304, 307143, 307991,
       308848, 309715, 310591, 311476, 312372, 313278, 314194, 315121, 316059, 317009,
       317970, 318942, 319928, 320925, 321936, 322960, 323998, 325050, 326116, 327198,
       328295, 329408, 330537, 331684, 332847, 334030, 335230, 336451, 337691, 338952,
       340235, 341540, 342868, 344220, 345598, 347002, 348432, 349891, 351380, 352899,
       354450, 356035, 357655, 359312, 361008, 362744, 364523, 366347, 368218, 370139,
       372113, 374143, 376232, 378385, 380604, 382895, 385263, 387713, 390251, 392884,
       395619, 398465, 401433, 404532, 407775, 411177, 414755, 418527, 422518, 426753,
       431267, 436099, 441297, 446923, 453055, 459795, 467277, 475689, 485296, 496500,
       509945, 526766, 549265, 583386, 656694 >>

\* number of steps at or below raw, by bisection over lo..hi
RECURSIVE StepsBelow(_, _, _)
StepsBelow(raw, lo, hi) ==
    IF lo >= hi THEN lo
    ELSE LET mid == (lo + hi + 1) \div 2
         IN  IF SigmoidSteps[mid] <= raw
             THEN StepsBelow(raw, mid, hi)
             ELSE StepsBelow(raw, lo, mid - 1)

\* round(self._sigmoid_scale(raw_score) * 100, 1), in tenths
SigmoidScore(raw) == SigmoidFloor + StepsBelow(raw, 0, Len(SigmoidSteps))

\* a percentile rank that counts the current score but divides by the prior count
PercentileScoreInclusive(h, raw) ==
    LET below == Cardinality({i \in 1..Len(h) : h[i] <= raw})
    IN  RoundHalfEven(below * 1000, Len(h) - 1)

\* Step 4, percentile branch: rank among the history without its last entry
PercentileScore(h, raw) ==
    LET history_array == SubSeq(h, 1, Len(h) - 1)
        below == Cardinality({i \in 1..Len(history_array) : history_array[i] < raw})
    IN  RoundHalfEven(below * 1000, Len(history_array))

FinalScore(h, raw) ==
    IF Len(h) >= 10 THEN PercentileScore(h, raw) ELSE SigmoidScore(raw)

\* from_score with each boundary value in the lower bucket
from_score_boundary_low(score) ==
    IF score <= 200 THEN "VERY_NORMAL"
    ELSE IF score <= 400 THEN "NORMAL"
    ELSE IF score <= 600 THEN "SLIGHTLY_UNUSUAL"
    ELSE IF score <= 800 THEN "UNUSUAL"
    ELSE "HIGHLY_UNUSUAL"

\* core/types.py UnusualnessLevel.from_score
from_score(score) ==
    IF score < 200 THEN "VERY_NORMAL"
    ELSE IF score < 400 THEN "NORMAL"
    ELSE IF score < 600 THEN "SLIGHTLY_UNUSUAL"
    ELSE IF score < 800 THEN "UNUSUAL"
    ELSE "HIGHLY_UNUSUAL"

UnusualnessResult(score, raw) ==
    [score |-> score, raw_score |-> raw, level |-> from_score(score)]

NoScore == [score |-> 0, raw_score |-> 0, level |-> "none"]

\* the result of calculate on history h (before the call), window w
CalculateResult(weights, h, w, f) ==
    LET raw == RawScore(weights, f)
    IN  UnusualnessResult(FinalScore(AppendToHistory(h, w, raw), raw), raw)

\* a weight check with a tolerance of 0.1
WeightsAcceptedLoose(weights) == ~(Abs(SumSeq(weights) - 1000) > 100)

\* __init__: the weights of SCORE_COMPONENTS must sum to 1.0 within 0.001
WeightsAccepted(weights) == ~(Abs(SumSeq(weights) - 1000) > 1)

----------------------------------------------------------------------------
(* The scorer as a state machine *)

MaxCalls == 2

\* weight tables the constructor may find in SCORE_COMPONENTS: sums of 1.0,
\* 0.9, 1.001 and 1.002, on each of which the double-precision comparison of
\* __init__ agrees with the exact one
WeightVectors ==
    {SCORE_WEIGHTS,
     <<250, 250, 200, 150, 50>>,
     <<250, 250, 200, 150, 151>>,
     <<250, 250, 200, 150, 152>>}

HistoryWindows == {0, 3, 10}

\* tests/unit/test_scoring.py engine_with_history, extended by two entries
BaseHistory ==
    <<50000, 80000, 100000, 120000, 90000, 70000, 110000, 130000, 60000,
      100000, 150000, 40000>>

InitialHistories == {SubSeq(BaseHistory, 1, n) : n \in {0, 9, 12}}

HistoricalScores == {0, 150000}

ScoreFeatureMaps ==
    {[dark_pool_ratio_zscore |-> dpz, dark_pool_ratio_pct |-> dpp,
      gex_zscore |-> gex, venue_shift_zscore |-> vs,
      block_trade_count_zscore |-> NaN, block_trade_count_pct |-> bpp,
      iv_skew_zscore |-> Num(50)] :
        dpz \in {Absent, NaN, Num(-200), Num(200)},
        dpp \in {Absent, Num(100)},
        gex \in {Absent, Num(300)},
        vs \in {Absent, Num(-100000)},
        bpp \in {Absent, Num(0)}}

\* UnusualnessEngine(history_window, score_history)
Construct(w, h) ==
    /\ engState = "none"
    /\ IF WeightsAccepted(scoreWeights)
       THEN /\ engState' = "ready"
            /\ history_window' = w
            /\ score_history' = h
            /\ recorded' = h
       ELSE /\ engState' = "error"
            /\ UNCHANGED <<history_window, score_history, recorded>>
    /\ UNCHANGED <<scoreWeights, lastScore, calls, clsVars, plVars, stVars, extVars>>

\* UnusualnessEngine.calculate(features)
Calculate(f) ==
    /\ engState = "ready"
    /\ calls < MaxCalls
    /\ LET raw == RawScore(scoreWeights, f)
       IN  /\ score_history' = AppendToHistory(score_history, history_window, raw)
           /\ recorded' = Append(recorded, raw)
           /\ lastScore' = CalculateResult(scoreWeights, score_history,
                                           history_window, f)
    /\ calls' = calls + 1
    /\ UNCHANGED <<scoreWeights, engState, history_window, clsVars, plVars, stVars, extVars>>

\* UnusualnessEngine.add_historical_score(raw_score)
AddHistoricalScore(raw) ==
    /\ engState = "ready"
    /\ calls < MaxCalls
    /\ score_history' = AppendToHistory(score_history, history_window, raw)
    /\ recorded' = Append(recorded, raw)
    /\ calls' = calls + 1
    /\ UNCHANGED <<scoreWeights, engState, history_window, lastScore,
                   clsVars, plVars, stVars, extVars>>

----------------------------------------------------------------------------
(* calculate on an engine built with the default window *)

\* raw scores 0.1, 0.2, ... 1.0 recorded earlier
RecordedScores ==
    <<10000, 20000, 30000, 40000, 50000, 60000, 70000, 80000, 90000, 100000>>

\* score_history handed to the constructor: 0, 8, 9 or 10 earlier raw scores
CalculateHistories == {SubSeq(RecordedScores, 1, n) : n \in {0, 8, 9, 10}}

\* normalized features that give raw scores between, on and beyond the
\* recorded ones, and on both sides of a sigmoid score of 20.0
CalculateFeatureMaps ==
    {[dark_pool_ratio_zscore |-> dpz, dark_pool_ratio_pct |-> Absent,
      gex_zscore |-> Num(gex), venue_shift_zscore |-> Absent,
      block_trade_count_zscore |-> NaN, block_trade_count_pct |-> Absent,
      iv_skew_zscore |-> Absent] :
        dpz \in {Absent, Num(-40)},
        gex \in {0, 60, 100, 180, 229, 230, 260, 340, 500}}

----------------------------------------------------------------------------
(* Steps 1 and 2 of calculate on their own: the components and the raw score *)

ComponentArgs ==
    {[fn |-> "calculate_components",
      features |->
        [dark_pool_ratio_zscore |-> dpz, dark_pool_ratio_pct |-> dpp,
         gex_zscore |-> gex, venue_shift_zscore |-> vs,
         block_trade_count_zscore |-> blz, block_trade_count_pct |-> bpp,
         iv_skew_zscore |-> iv]] :
        dpz \in {Absent, NaN, Num(-200), Num(150)},
        dpp \in {Absent, NaN, Num(100), Num(25)},
        gex \in {Absent, NaN, Num(300)},
        vs \in {Absent, Num(-50)},
        blz \in {Absent, NaN, Num(0)},
        bpp \in {Absent, Num(0), Num(75)},
        iv \in {NaN, Num(50)}}

\* core/types.py ScoreComponent
ScoreComponent(name, weight, zscore) ==
    [name |-> name, weight |-> weight, zscore |-> zscore,
     contribution |-> weight * Abs(zscore)]

\* the components tuple and raw_score of the result
CalculateComponents ==
    /\ fnArgs.fn = "calculate_components"
    /\ ~fnResult.done
    /\ fnResult' =
         [done |-> TRUE,
          outcome |-> "return",
          components |->
              [i \in 1..Len(SCORE_COMPONENTS) |->
                  ScoreComponent(SCORE_COMPONENTS[i].name, SCORE_WEIGHTS[i],
                                 ComponentZscore(SCORE_COMPONENTS[i],
                                                 fnArgs.features))],
          raw_score |-> RawScore(SCORE_WEIGHTS, fnArgs.features)]
    /\ UNCHANGED <<fnArgs, clsVars, scVars, plVars, stVars, rwVars, nmVars>>

----------------------------------------------------------------------------
(* guardrails/validators.py: data completeness *)

REQUIRED_FEATURES_MINIMUM == <<"gex", "dex", "dark_pool_ratio">>

REQUIRED_FEATURES_FULL ==
    <<"gex", "dex", "dark_pool_ratio", "block_trade_count", "price_change_pct">>

\* features.get(feature) is None
IsNone(x) == x.kind = "absent"

\* validate_data_completeness with the secondary check ahead of the critical one
validate_data_completeness_full_first(features) ==
    LET missing_minimum ==
            SelectSeq(REQUIRED_FEATURES_MINIMUM, LAMBDA k : IsNone(features[k]))
        missing_full ==
            SelectSeq(REQUIRED_FEATURES_FULL, LAMBDA k : IsNone(features[k]))
    IN  IF missing_minimum = <<>> /\ missing_full = <<>>
        THEN [status |-> "COMPLETE", missing |-> <<>>]
        ELSE IF missing_full # <<>> /\ Len(missing_full) > Len(missing_minimum)
             THEN [status |-> "PARTIAL", missing |-> missing_full]
             ELSE [status |-> "INSUFFICIENT", missing |-> missing_minimum]

validate_data_completeness(features) ==
    LET missing_minimum ==
            SelectSeq(REQUIRED_FEATURES_MINIMUM, LAMBDA k : IsNone(features[k]))
        missing_full ==
            SelectSeq(REQUIRED_FEATURES_FULL, LAMBDA k : IsNone(features[k]))
    IN  IF missing_minimum = <<>> /\ missing_full = <<>>
        THEN [status |-> "COMPLETE", missing |-> <<>>]
        ELSE IF missing_minimum # <<>>
             THEN [status |-> "INSUFFICIENT", missing |-> missing_minimum]
             ELSE [status |-> "PARTIAL", missing |-> missing_full]

----------------------------------------------------------------------------
(* normalization/methods.py, normalization/pipeline.py *)

\* clip_std of zscore_normalize: NoClip stands for None
NoClip == -1

\* a z-score that ignores clip_std
zscore_normalize_unclipped(value, mean, std, clip_std) ==
    IF std = 0 THEN 0 ELSE ((value - mean) * 100) \div std

\* zscore_normalize(value, mean, std, clip_std), the result in hundredths
zscore_normalize(value, mean, std, clip_std) ==
    IF std = 0
    THEN 0
    ELSE LET zscore == ((value - mean) * 100) \div std
         IN  IF clip_std # NoClip
             THEN Max(-clip_std, Min(clip_std, zscore))
             ELSE zscore

\* a DistributionStats of a baseline, or the absence of one (None)
Dist(mean, std) == [mapped |-> TRUE, mean |-> mean, std |-> std]
NoDist == [mapped |-> FALSE, mean |-> 0, std |-> 0]

\* the raw features the model follows through normalization
NormFeatures ==
    {"gex", "dex", "dark_pool_ratio", "block_trade_count", "price_change_pct",
     "venue_shift", "iv_skew"}

\* _get_baseline_stats: price_change_pct has no entry in the mapping
_get_baseline_stats(baseline, feature) ==
    IF ~baseline.present \/ feature = "price_change_pct"
    THEN NoDist
    ELSE baseline.stats[feature]

\* RollingWindowCalculator.compute_stats on a buffer holding one value:
\* count 1, mean the value, std 0.0 (count > 1 is false)
RollingStatsOfOne(value) == [count |-> 1, mean |-> value, std |-> 0]

\* _normalize_feature under the default feature config (method zscore,
\* clip_outliers True, outlier_std 3.0); the rolling buffers of the freshly
\* built pipeline hold exactly the value normalize() has just added
_normalize_feature(baseline, feature, value) ==
    LET baseline_stats == _get_baseline_stats(baseline, feature)
        stats == RollingStatsOfOne(value)
    IN  IF baseline_stats.mapped
        THEN zscore_normalize(value, baseline_stats.mean, baseline_stats.std, 300)
        ELSE zscore_normalize(value, stats.mean, stats.std, 300)

\* normalize(): features.normalized, key "<feature>_zscore"; a raw value of
\* None is skipped and its key stays out of the dict
Normalized(baseline, obs, feature) ==
    IF IsNone(obs[feature])
    THEN Absent
    ELSE Num(_normalize_feature(baseline, feature, obs[feature].v))

\* pd.Series(...) turns a None among floats into NaN
NoneToNaN(x) == IF IsNone(x) THEN NaN ELSE x

\* FeatureSet.to_series(): the two raw fields and the normalized dict
to_series(baseline, obs) ==
    [gex_zscore |-> Normalized(baseline, obs, "gex"),
     dex_zscore |-> Normalized(baseline, obs, "dex"),
     dark_pool_ratio_pct |-> NoneToNaN(obs["dark_pool_ratio"]),
     dark_pool_ratio |-> Absent,
     price_efficiency_pct |-> Absent,
     impact_per_vol_pct |-> Absent,
     block_trade_count_zscore |-> Normalized(baseline, obs, "block_trade_count"),
     price_change_pct |-> NoneToNaN(obs["price_change_pct"])]

\* features.normalized as the scorer reads it
NormalizedForScorer(baseline, obs) ==
    [dark_pool_ratio_zscore |-> Normalized(baseline, obs, "dark_pool_ratio"),
     dark_pool_ratio_pct |-> Absent,
     gex_zscore |-> Normalized(baseline, obs, "gex"),
     venue_shift_zscore |-> Normalized(baseline, obs, "venue_shift"),
     block_trade_count_zscore |-> Normalized(baseline, obs, "block_trade_count"),
     block_trade_count_pct |-> Absent,
     iv_skew_zscore |-> Normalized(baseline, obs, "iv_skew")]

----------------------------------------------------------------------------
(* pipeline/daily.py *)

MaxRuns == 2
MaxBatch == 2

Tickers == {"SPY", "AAPL"}

\* UnusualnessEngine() as DailyPipeline.__init__ builds it
DEFAULT_HISTORY_WINDOW == 63

NullBaseline == [present |-> FALSE, stats |-> [k \in NormFeatures |-> NoDist]]

SampleBaseline ==
    [present |-> TRUE,
     stats |-> [gex |-> Dist(0, 1), dex |-> Dist(0, 1),
                dark_pool_ratio |-> Dist(40, 10),
                block_trade_count |-> Dist(10, 5),
                price_change_pct |-> NoDist,
                venue_shift |-> Dist(0, 1),
                iv_skew |-> NoDist]]

\* the raw FeatureSet of one day: each field a number or None
Observations ==
    {[gex |-> gex, dex |-> dex, dark_pool_ratio |-> dpr,
      block_trade_count |-> blk, price_change_pct |-> pch,
      venue_shift |-> Absent, iv_skew |-> Absent] :
        gex \in {Absent, Num(3)}, dex \in {Absent, Num(2)},
        dpr \in {Absent, Num(80)}, blk \in {Absent, Num(20)},
        pch \in {Num(0)}}

RECURSIVE SeqsUpTo(_, _)
SeqsUpTo(S, n) ==
    IF n = 0 THEN {<<>>}
    ELSE LET shorter == SeqsUpTo(S, n - 1)
         IN  shorter \cup {Append(q, x) : q \in shorter, x \in S}

Batches == SeqsUpTo(Tickers, MaxBatch) \ {<<>>}

\* _load_baseline: the cache first, then the storage; only a found baseline is cached
_load_baseline(ticker) ==
    IF plBaselines[ticker].present
    THEN plBaselines[ticker]
    ELSE plStorage[ticker]

\* run_batch(tickers), up to its loop
StartBatch(tickers) ==
    /\ plQueue = <<>>
    /\ plRuns < MaxRuns
    /\ plQueue' = tickers
    /\ plResults' = <<>>
    /\ UNCHANGED <<plStorage, plBaselines, require_baseline, plScoreHistory,
                   plScoreOwner, plRuns, clsVars, scVars, stVars, extVars>>

\* one iteration of run_batch: run(ticker) on the day's observation obs;
\* a ValueError raised by run is logged and the loop continues
RunNext(obs) ==
    /\ plQueue # <<>>
    /\ LET ticker == Head(plQueue)
           baseline == _load_baseline(ticker)
       IN  /\ plBaselines' = [plBaselines EXCEPT ![ticker] = baseline]
           /\ IF ~baseline.present /\ require_baseline
              THEN UNCHANGED <<plResults, plScoreHistory, plScoreOwner>>
              ELSE LET regime == classify(to_series(baseline, obs))
                       normalized == NormalizedForScorer(baseline, obs)
                       raw == RawScore(SCORE_WEIGHTS, normalized)
                       unusualness ==
                           CalculateResult(SCORE_WEIGHTS, plScoreHistory,
                                           DEFAULT_HISTORY_WINDOW, normalized)
                   IN  /\ plScoreHistory' =
                              AppendToHistory(plScoreHistory,
                                              DEFAULT_HISTORY_WINDOW, raw)
                       /\ plScoreOwner' =
                              AppendToHistory(plScoreOwner,
                                              DEFAULT_HISTORY_WINDOW, ticker)
                       /\ plResults' =
                              Append(plResults,
                                     [ticker |-> ticker,
                                      completeness |->
                                          validate_data_completeness(obs).status,
                                      regime |-> regime,
                                      unusualness |-> unusualness])
    /\ plQueue' = Tail(plQueue)
    /\ plRuns' = plRuns + 1
    /\ UNCHANGED <<plStorage, require_baseline, clsVars, scVars, stVars, extVars>>

----------------------------------------------------------------------------
(* baseline/storage.py: save and load of one ticker's file *)

MaxVersion == 3

\* number of buffer flushes json.dump needs for one baseline document
FileChunks == 2

NoFile == [exists |-> FALSE, ver |-> 0, chunks |-> 0]

NotLoading == [pc |-> "idle", prev |-> -1, result |-> [kind |-> "none", ver |-> 0]]

\* save: _serialize_baseline, then open(path, "w"), which truncates the file
SaveOpen ==
    /\ stSave.pc = "idle"
    /\ stCommitted < MaxVersion
    /\ stSave' = [pc |-> "writing", ver |-> stCommitted + 1]
    /\ stFile' = [exists |-> TRUE, ver |-> stCommitted + 1, chunks |-> 0]
    /\ UNCHANGED <<stCommitted, stLoad, clsVars, scVars, plVars, extVars>>

\* save: json.dump pushes the next part of the document to the file
SaveWrite ==
    /\ stSave.pc = "writing"
    /\ stFile.chunks < FileChunks
    /\ stFile' = [stFile EXCEPT !.chunks = @ + 1]
    /\ UNCHANGED <<stCommitted, stSave, stLoad, clsVars, scVars, plVars, extVars>>

\* save: the with-block closes the file and save returns True
SaveClose ==
    /\ stSave.pc = "writing"
    /\ stFile.chunks = FileChunks
    /\ stSave' = [stSave EXCEPT !.pc = "idle"]
    /\ stCommitted' = stSave.ver
    /\ UNCHANGED <<stFile, stLoad, clsVars, scVars, plVars, extVars>>

\* load: path.exists(); None when there is no file
LoadCheck ==
    /\ stLoad.pc \in {"idle", "done"}
    /\ stLoad' = IF stFile.exists
                 THEN [pc |-> "reading", prev |-> stCommitted,
                       result |-> [kind |-> "none", ver |-> 0]]
                 ELSE [pc |-> "done", prev |-> stCommitted,
                       result |-> [kind |-> "none", ver |-> 0]]
    /\ UNCHANGED <<stFile, stCommitted, stSave, clsVars, scVars, plVars, extVars>>

\* load: json.load of what the file holds now; a JSON error is logged and
\* None is returned
LoadRead ==
    /\ stLoad.pc = "reading"
    /\ stLoad' = [stLoad EXCEPT
                    !.pc = "done",
                    !.result = IF stFile.chunks = FileChunks
                               THEN [kind |-> "baseline", ver |-> stFile.ver]
                               ELSE [kind |-> "none", ver |-> 0]]
    /\ UNCHANGED <<stFile, stCommitted, stSave, clsVars, scVars, plVars, extVars>>

----------------------------------------------------------------------------
(* normalization/rolling.py: RollingWindowCalculator *)

\* number of values handed to add / add_batch in one behaviour
MaxRollingInputs == 4

\* the capacities W the calculator is built with
RollingWindows == {0, 1, 2, 3}

\* the values handed to add
RollingInputs == {NaN, Num(1), Num(2)}

\* the lists handed to add_batch
RollingBatches ==
    {<<a, b>> : a \in RollingInputs, b \in RollingInputs}

\* an append that never evicts
DequeAppendUnbounded(d, maxlen, v) == Append(d, v)

\* collections.deque(maxlen=...).append: a full deque drops its oldest entry,
\* a deque of maxlen 0 stays empty
DequeAppend(d, maxlen, v) ==
    IF maxlen = 0
    THEN d
    ELSE IF Len(d) = maxlen
         THEN Append(Tail(d), v)
         ELSE Append(d, v)

\* RollingWindowCalculator.add: NaN is skipped
RollingAdd(values, window, value) ==
    IF ~(value = NaN)
    THEN DequeAppend(values, window, value)
    ELSE values

\* RollingWindowCalculator.add_batch: add each value in turn
RECURSIVE RollingAddBatch(_, _, _)
RollingAddBatch(values, window, batch) ==
    IF batch = <<>>
    THEN values
    ELSE RollingAddBatch(RollingAdd(values, window, Head(batch)), window,
                         Tail(batch))

\* calc.add(value)
RwAdd(value) ==
    /\ Len(rwInputs) + 1 <= MaxRollingInputs
    /\ rwValues' = RollingAdd(rwValues, rwWindow, value)
    /\ rwInputs' = Append(rwInputs, value)
    /\ UNCHANGED <<rwWindow, clsVars, scVars, plVars, stVars, nmVars, fnVars>>

\* calc.add_batch(values)
RwAddBatch(batch) ==
    /\ Len(rwInputs) + Len(batch) <= MaxRollingInputs
    /\ rwValues' = RollingAddBatch(rwValues, rwWindow, batch)
    /\ rwInputs' = rwInputs \o batch
    /\ UNCHANGED <<rwWindow, clsVars, scVars, plVars, stVars, nmVars, fnVars>>

----------------------------------------------------------------------------
(* normalization/pipeline.py: NormalizationPipeline.normalize *)

\* the pipeline of one feature: the baseline's distribution for it (NoDist
\* when there is no baseline or the baseline maps none), and the window and
\* min_observations of the configuration
NoNormConfig == [baseline |-> NoDist, window |-> 0, min_observations |-> 0]

NormConfigs ==
    {[baseline |-> b, window |-> 3, min_observations |-> m] :
        b \in {NoDist, Dist(2, 1)}, m \in {2, 3}}

\* raw values of the feature; Absent stands for None
NormRawValues == {Absent, Num(1), Num(3)}

NoNormResult ==
    [status |-> "none", out |-> Absent, value |-> Absent, ready |-> FALSE]

\* floor of the square root of x, by bisection on lo..hi
RECURSIVE SqrtBisect(_, _, _)
SqrtBisect(x, lo, hi) ==
    IF lo >= hi
    THEN lo
    ELSE LET mid == (lo + hi + 1) \div 2
         IN  IF mid * mid <= x
             THEN SqrtBisect(x, mid, hi)
             ELSE SqrtBisect(x, lo, mid - 1)

\* RollingWindowCalculator.compute_stats: count, and mean and sample standard
\* deviation (ddof=1, 0.0 for a single value) in hundredths of the raw unit;
\* an empty buffer gives RollingStats.empty(), count 0
compute_stats(values) ==
    LET n == Len(values)
        S == SumSeq([i \in 1..n |-> values[i].v])
        Q == SumSeq([i \in 1..n |-> (n * values[i].v - S) * (n * values[i].v - S)])
    IN  IF n = 0
        THEN [count |-> 0, mean |-> 0, std |-> 0]
        ELSE [count |-> n,
              mean |-> (100 * S) \div n,
              std |-> IF n > 1
                      THEN SqrtBisect((10000 * Q) \div (n * n * (n - 1)), 0,
                                      100 * n * 3)
                      ELSE 0]

\* RollingStats.is_valid
is_valid(stats) == stats.count > 0

\* RollingWindowCalculator.is_ready
is_ready(values, min_observations) == Len(values) >= min_observations

\* _normalize_feature, rolling branch: stats.is_valid decides, then
\* zscore_normalize against the rolling mean and std
RollingNormalize(config, values, value) ==
    LET stats == compute_stats(values)
    IN  IF ~is_valid(stats)
        THEN Absent
        ELSE Num(zscore_normalize(100 * value, stats.mean, stats.std, 300))

\* _normalize_feature with the pipeline's own baseline and buffer: baseline
\* statistics first, rolling statistics otherwise
NormalizeFeature(config, values, value) ==
    IF config.baseline.mapped
    THEN Num(zscore_normalize(value, config.baseline.mean,
                              config.baseline.std, 300))
    ELSE RollingNormalize(config, values, value)

\* load_history: one stored day is added to the rolling buffer
NmLoadHistory(value) ==
    /\ nmResult.status = "none"
    /\ nmValues' = RollingAdd(nmValues, nmConfig.window, value)
    /\ UNCHANGED <<nmConfig, nmResult, clsVars, scVars, plVars, stVars,
                   rwVars, fnVars>>

\* normalize(features, require_history) for an observation holding this one
\* feature: add to the buffer, check readiness, normalize
Normalize(value, require_history) ==
    LET added == IF value = Absent
                 THEN nmValues
                 ELSE RollingAdd(nmValues, nmConfig.window, value)
        ready == is_ready(added, nmConfig.min_observations)
    IN  /\ nmValues' = added
        /\ nmResult' =
             IF require_history /\ ~ready
             THEN [status |-> "error", out |-> Absent, value |-> value,
                   ready |-> ready]
             ELSE [status |-> "ok",
                   out |-> IF value = Absent
                           THEN Absent
                           ELSE NormalizeFeature(nmConfig, added, value.v),
                   value |-> value, ready |-> ready]
        /\ UNCHANGED <<nmConfig, clsVars, scVars, plVars, stVars, rwVars, fnVars>>

----------------------------------------------------------------------------
(* Calls of pure functions *)

NoArgs == [fn |-> "none"]

NoCall == [done |-> FALSE]

----------------------------------------------------------------------------
(* baseline/types.py: DistributionStats.percentile_rank *)

\* the (min_val, median, max_val) of a distribution: min_val <= median <= max_val
PercentileStats ==
    {st \in [min_val : 0..3, median : 0..3, max_val : 0..3] :
        st.min_val <= st.median /\ st.median <= st.max_val}

\* a distribution and two arguments
PercentileArgs ==
    {[fn |-> "percentile_rank", stats |-> st, v1 |-> a, v2 |-> b] :
        st \in PercentileStats, a \in -1..4, b \in -1..4}

\* an interpolation whose upper half does not start from 50
percentile_rank_no_offset(stats, value) ==
    IF value <= stats.min_val
    THEN 0
    ELSE IF value >= stats.max_val
         THEN 100000
         ELSE IF value <= stats.median
              THEN (50000 * (value - stats.min_val) - 1)
                       \div (stats.median - stats.min_val)
              ELSE (50000 * (value - stats.median) - 1)
                       \div (stats.max_val - stats.median)

\* percentile_rank(value) in thousandths of a percent, rounded down. The
\* 1e-10 added to each denominator keeps the quotient just below the exact
\* one, so its floor is (numerator - 1) \div denominator.
percentile_rank(stats, value) ==
    IF value <= stats.min_val
    THEN 0
    ELSE IF value >= stats.max_val
         THEN 100000
         ELSE IF value <= stats.median
              THEN (50000 * (value - stats.min_val) - 1)
                       \div (stats.median - stats.min_val)
              ELSE 50000 + (50000 * (value - stats.median) - 1)
                               \div (stats.max_val - stats.median)

\* stats.percentile_rank at v1, v2, min_val and max_val
PercentileRank ==
    /\ fnArgs.fn = "percentile_rank"
    /\ ~fnResult.done
    /\ fnResult' = [done |-> TRUE,
                    r1 |-> percentile_rank(fnArgs.stats, fnArgs.v1),
                    r2 |-> percentile_rank(fnArgs.stats, fnArgs.v2),
                    at_min |-> percentile_rank(fnArgs.stats, fnArgs.stats.min_val),
                    at_max |-> percentile_rank(fnArgs.stats, fnArgs.stats.max_val)]
    /\ UNCHANGED <<fnArgs, clsVars, scVars, plVars, stVars, rwVars, nmVars>>

----------------------------------------------------------------------------
(* normalization/methods.py zscore_normalize, baseline/types.py zscore *)

\* DistributionStats.zscore(value), in hundredths
DistributionStats_zscore(stats, value) ==
    IF stats.std = 0
    THEN 0
    ELSE ((value - stats.mean) * 100) \div stats.std

\* value, mean, std >= 0 and clip_std (in hundredths, or NoClip for None)
ZscoreArgs ==
    {[fn |-> "zscore", value |-> v, mean |-> m, std |-> sd, clip_std |-> c] :
        v \in -8..8, m \in {-1, 0, 2}, sd \in {0, 1, 2, 3},
        c \in {NoClip, 100, 300}}

\* both z-scores of value, of the mean and of mean + std
Zscore ==
    /\ fnArgs.fn = "zscore"
    /\ ~fnResult.done
    /\ LET stats == Dist(fnArgs.mean, fnArgs.std)
           norm(v) == zscore_normalize(v, fnArgs.mean, fnArgs.std, fnArgs.clip_std)
       IN  fnResult' =
             [done |-> TRUE,
              normalized |-> norm(fnArgs.value),
              zscore |-> DistributionStats_zscore(stats, fnArgs.value),
              normalized_at_mean |-> norm(fnArgs.mean),
              zscore_at_mean |-> DistributionStats_zscore(stats, fnArgs.mean),
              normalized_at_std |-> norm(fnArgs.mean + fnArgs.std),
              zscore_at_std |->
                  DistributionStats_zscore(stats, fnArgs.mean + fnArgs.std)]
    /\ UNCHANGED <<fnArgs, clsVars, scVars, plVars, stVars, rwVars, nmVars>>

----------------------------------------------------------------------------
(* guardrails/types.py InstrumentType, guardrails/validators.py
   validate_instrument_type *)

\* InstrumentType.from_ticker: the fixed membership list
INDEX_ETFS ==
    {"SPY", "SPX", "QQQ", "IWM", "DIA", "VOO", "VTI",
     "XLF", "XLE", "XLK", "XLV", "XLI", "XLU", "XLB", "XLY", "XLP",
     "VXX", "UVXY", "SVXY",
     "TQQQ", "SQQQ", "SPXU", "SPXL", "UPRO"}

\* tickers as callers may spell them
InstrumentTickers ==
    INDEX_ETFS \cup {"AAPL", "MSFT", "TSLA", "NVDA", "spy", "qqq", "aapl", "Xlf"}

\* str.upper() on the spellings above
Upper(ticker) ==
    CASE ticker = "spy" -> "SPY"
      [] ticker = "qqq" -> "QQQ"
      [] ticker = "aapl" -> "AAPL"
      [] ticker = "Xlf" -> "XLF"
      [] OTHER -> ticker

from_ticker(ticker) ==
    IF Upper(ticker) \in INDEX_ETFS THEN "INDEX_ETF" ELSE "STOCK"

\* a ticker and the baseline's locked type ("None" when no baseline type is given)
InstrumentArgs ==
    {[fn |-> "validate_instrument_type", ticker |-> t, baseline_instrument_type |-> b] :
        t \in InstrumentTickers, b \in {"None", "STOCK", "INDEX_ETF"}}

NoViolation == [present |-> FALSE, guardrail |-> "", severity |-> ""]

GuardrailViolation(guardrail, severity) ==
    [present |-> TRUE, guardrail |-> guardrail, severity |-> severity]

\* validate_instrument_type(ticker, baseline_instrument_type): both paths end
\* in a return statement, the mismatch path after logging the violation
validate_instrument_type(ticker, baseline_instrument_type) ==
    LET current_type == from_ticker(ticker)
    IN  IF baseline_instrument_type # "None"
           /\ current_type # baseline_instrument_type
        THEN [outcome |-> "return", type |-> current_type,
              violation |-> GuardrailViolation("INSTRUMENT_TYPE_SEPARATION", "error")]
        ELSE [outcome |-> "return", type |-> current_type,
              violation |-> NoViolation]

ValidateInstrumentType ==
    /\ fnArgs.fn = "validate_instrument_type"
    /\ ~fnResult.done
    /\ fnResult' =
         [done |-> TRUE,
          call |-> validate_instrument_type(fnArgs.ticker,
                                            fnArgs.baseline_instrument_type)]
    /\ UNCHANGED <<fnArgs, clsVars, scVars, plVars, stVars, rwVars, nmVars>>

----------------------------------------------------------------------------
(* guardrails/conventions.py normalize_greek_sign, guardrails/validators.py
   validate_greeks_sign_convention *)

\* the members of GreeksSource
GreeksSource == {"UNUSUAL_WHALES", "ORATS", "CBOE", "MANUAL"}

\* SIGN_CONVENTION_MULTIPLIERS: every source maps the four Greeks to 1
SIGN_CONVENTION_MULTIPLIERS ==
    [src \in GreeksSource |->
        [gex |-> 1, dex |-> 1, vanna |-> 1, charm |-> 1]]

\* greek_keys of validate_greeks_sign_convention, in loop order
greek_keys == <<"gex", "dex", "vanna", "charm">>

\* the keys an input map may hold: the four Greeks and one more name
GreekInputKeys == {"gex", "dex", "vanna", "charm", "vega"}

\* the sources a caller may pass: the enum members and a plain string that is
\* not one of them
GreekSources == GreeksSource \cup {"bloomberg"}

GreekValues == {Absent, Num(-2), Num(3)}

GreeksArgs ==
    {[fn |-> "validate_greeks_sign_convention",
      greeks |-> [gex |-> g, dex |-> d, vanna |-> va, charm |-> c, vega |-> ve],
      source |-> src] :
        g \in GreekValues, d \in {Absent, Num(3)}, va \in {Absent, Num(-2)},
        c \in {Absent, Num(3)}, ve \in {Absent, Num(3)}, src \in GreekSources}

\* normalize_greek_sign(value, greek, source): ValueError for a source without
\* a table or a Greek without a multiplier, else value * multiplier
normalize_greek_sign(value, greek, source) ==
    IF source \notin DOMAIN SIGN_CONVENTION_MULTIPLIERS
    THEN [outcome |-> "raise", value |-> 0]
    ELSE IF greek \notin DOMAIN SIGN_CONVENTION_MULTIPLIERS[source]
         THEN [outcome |-> "raise", value |-> 0]
         ELSE [outcome |-> "return",
               value |-> value * SIGN_CONVENTION_MULTIPLIERS[source][greek]]

\* the loop of validate_greeks_sign_convention from key i on. A key that is
\* missing or None is skipped. A ValueError of normalize_greek_sign is caught
\* and turned into a violation whose context reads source.value, which a
\* source that is no GreeksSource member does not have: that AttributeError
\* leaves the function.
RECURSIVE GreeksLoop(_, _, _, _, _)
GreeksLoop(greeks, source, i, normalized, violations) ==
    IF i > Len(greek_keys)
    THEN [outcome |-> "return", normalized |-> normalized,
          violations |-> violations]
    ELSE LET key == greek_keys[i]
             r == normalize_greek_sign(greeks[key].v, key, source)
         IN  IF greeks[key] = Absent
             THEN GreeksLoop(greeks, source, i + 1, normalized, violations)
             ELSE IF r.outcome = "return"
                  THEN GreeksLoop(greeks, source, i + 1,
                                  [normalized EXCEPT ![key] = Num(r.value)],
                                  violations)
                  ELSE IF source \in GreeksSource
                       THEN GreeksLoop(greeks, source, i + 1, normalized,
                                Append(violations,
                                       GuardrailViolation("GREEKS_SIGN_CONVENTION",
                                                          "error")))
                       ELSE [outcome |-> "raise", normalized |-> normalized,
                             violations |-> violations]

validate_greeks_sign_convention(greeks, source) ==
    GreeksLoop(greeks, source, 1, [k \in GreekInputKeys |-> Absent], <<>>)

ValidateGreeksSignConvention ==
    /\ fnArgs.fn = "validate_greeks_sign_convention"
    /\ ~fnResult.done
    /\ fnResult' =
         [done |-> TRUE,
          call |-> validate_greeks_sign_convention(fnArgs.greeks, fnArgs.source),
          direct |-> [k \in GreekInputKeys |->
                        normalize_greek_sign(fnArgs.greeks[k].v, k, fnArgs.source)]]
    /\ UNCHANGED <<fnArgs, clsVars, scVars, plVars, stVars, rwVars, nmVars>>

----------------------------------------------------------------------------
(* guardrails/types.py DataCompleteness, guardrails/validators.py
   validate_data_completeness called on its own *)

\* DataCompleteness.allows_regime_classification
allows_regime_classification(status) == status \in {"COMPLETE", "PARTIAL"}

\* a value of the feature dict: None (or no key), a number, NaN
CompletenessValues == {Absent, Num(1), NaN}

CompletenessArgs ==
    {[fn |-> "validate_data_completeness",
      features |-> [gex |-> g, dex |-> d, dark_pool_ratio |-> dp,
                    block_trade_count |-> b, price_change_pct |-> pc]] :
        g \in CompletenessValues, d \in CompletenessValues,
        dp \in CompletenessValues, b \in CompletenessValues,
        pc \in CompletenessValues}

\* the returned pair: the status and the MissingDataRecord or None
ValidateDataCompleteness ==
    /\ fnArgs.fn = "validate_data_completeness"
    /\ ~fnResult.done
    /\ LET r == validate_data_completeness(fnArgs.features)
       IN  fnResult' =
             [done |-> TRUE,
              status |-> r.status,
              has_record |-> r.status # "COMPLETE",
              missing_features |-> r.missing,
              allows |-> allows_regime_classification(r.status)]
    /\ UNCHANGED <<fnArgs, clsVars, scVars, plVars, stVars, rwVars, nmVars>>

----------------------------------------------------------------------------
(* baseline/types.py TickerBaseline and its parts, baseline/storage.py
   _serialize_* and _deserialize_*, save and load *)

\* Python's None, and null of a JSON text
None == [t |-> "None"]
JsonNull == [t |-> "null"]

\* datetime.date
Date(y, m, d) == [t |-> "date", year |-> y, month |-> m, day |-> d]

\* BaselineUpdatePolicy members and their values
BaselineUpdatePolicy == {"LOCKED", "DYNAMIC"}

Policy(name) == [t |-> "BaselineUpdatePolicy", name |-> name]

PolicyValue(policy) == IF policy.name = "LOCKED" THEN "locked" ELSE "dynamic"

\* BaselineUpdatePolicy(value)
PolicyOfValue(value) ==
    IF value = "locked" THEN Policy("LOCKED") ELSE Policy("DYNAMIC")

\* DistributionStats, with the statistics in hundredths
DistributionStats(mean, std, n) ==
    [t |-> "DistributionStats", mean |-> mean, std |-> std, median |-> mean,
     mad |-> std, p25 |-> mean - std, p75 |-> mean + std, p90 |-> mean + 2 * std,
     p95 |-> mean + 3 * std, min_val |-> mean - 4 * std,
     max_val |-> mean + 4 * std, n_observations |-> n]

DarkPoolBaseline(dark_volume, policy) ==
    [t |-> "DarkPoolBaseline",
     dark_share |-> DistributionStats(4000, 500, 63),
     dark_share_typical_range |-> [t |-> "tuple", items |-> <<3500, 4500>>],
     daily_block_count |-> DistributionStats(1200, 300, 63),
     block_size |-> DistributionStats(50000, 1000, 63),
     block_premium |-> DistributionStats(0, 0, 63),
     venue_shift |-> DistributionStats(0, 100, 62),
     dark_volume |-> dark_volume,
     policy |-> policy]

GreeksBaseline(vanna, charm, iv) ==
    [t |-> "GreeksBaseline",
     gex |-> DistributionStats(-100, 200, 63),
     gex_positive_pct |-> 4000,
     gex_negative_pct |-> 6000,
     dex |-> DistributionStats(300, 150, 63),
     vanna |-> vanna,
     charm |-> charm,
     iv_atm |-> iv,
     iv_atm_daily_change |-> iv,
     iv_skew |-> iv,
     iv_rank |-> iv,
     policy |-> Policy("LOCKED")]

PriceEfficiencyBaseline ==
    [t |-> "PriceEfficiencyBaseline",
     range_per_volume |-> DistributionStats(10, 2, 63),
     range_per_volume_pct |-> DistributionStats(5000, 2900, 63),
     impact_per_volume |-> DistributionStats(3, 1, 63),
     price_efficiency |-> DistributionStats(100, 20, 63),
     daily_range_pct |-> DistributionStats(150, 50, 63),
     close_position |-> DistributionStats(50, 30, 63),
     policy |-> Policy("LOCKED")]

TickerBaseline(ticker, dark_pool, greeks, schema_version) ==
    [t |-> "TickerBaseline",
     ticker |-> ticker,
     baseline_date |-> Date(2024, 3, 29),
     lookback_days |-> 63,
     data_start_date |-> Date(2023, 12, 28),
     data_end_date |-> Date(2024, 3, 28),
     dark_pool |-> dark_pool,
     greeks |-> greeks,
     price_efficiency |-> PriceEfficiencyBaseline,
     observation_count |-> 63,
     missing_data_pct |-> 250,
     schema_version |-> schema_version]

\* an optional distribution: None or statistics
OptionalDistributions == {None, DistributionStats(100, 50, 40)}

RoundTripTickers == {"SPY", "aapl"}

SchemaVersions == {"1.0", "1.1"}

Baselines ==
    {TickerBaseline(ticker, DarkPoolBaseline(dv, Policy(pol)),
                    GreeksBaseline(vanna, charm, iv), ver) :
        ticker \in RoundTripTickers, dv \in OptionalDistributions,
        pol \in BaselineUpdatePolicy, vanna \in OptionalDistributions,
        charm \in OptionalDistributions, iv \in OptionalDistributions,
        ver \in SchemaVersions}

RoundTripArgs == {[fn |-> "round_trip", baseline |-> b] : b \in Baselines}

\* date.isoformat(): the text YYYY-MM-DD, kept as its three fields
isoformat(d) == [t |-> "str", text |-> <<d.year, d.month, d.day>>]

\* date.fromisoformat(text)
fromisoformat(str) == Date(str.text[1], str.text[2], str.text[3])

\* dict.get(key, default)
DictGet(data, key, default) == IF key \in DOMAIN data THEN data[key] ELSE default

_serialize_distribution(dist) ==
    IF dist = None
    THEN None
    ELSE [t |-> "dict", mean |-> dist.mean, std |-> dist.std,
          median |-> dist.median, mad |-> dist.mad, p25 |-> dist.p25,
          p75 |-> dist.p75, p90 |-> dist.p90, p95 |-> dist.p95,
          min_val |-> dist.min_val, max_val |-> dist.max_val,
          n_observations |-> dist.n_observations]

_serialize_dark_pool(dp) ==
    [t |-> "dict",
     dark_share |-> _serialize_distribution(dp.dark_share),
     dark_share_typical_range |->
         [t |-> "list", items |-> dp.dark_share_typical_range.items],
     dark_volume |-> _serialize_distribution(dp.dark_volume),
     daily_block_count |-> _serialize_distribution(dp.daily_block_count),
     block_size |-> _serialize_distribution(dp.block_size),
     block_premium |-> _serialize_distribution(dp.block_premium),
     venue_shift |-> _serialize_distribution(dp.venue_shift),
     policy |-> PolicyValue(dp.policy)]

_serialize_greeks(greeks) ==
    [t |-> "dict",
     gex |-> _serialize_distribution(greeks.gex),
     gex_positive_pct |-> greeks.gex_positive_pct,
     gex_negative_pct |-> greeks.gex_negative_pct,
     dex |-> _serialize_distribution(greeks.dex),
     vanna |-> _serialize_distribution(greeks.vanna),
     charm |-> _serialize_distribution(greeks.charm),
     iv_atm |-> _serialize_distribution(greeks.iv_atm),
     iv_atm_daily_change |-> _serialize_distribution(greeks.iv_atm_daily_change),
     iv_skew |-> _serialize_distribution(greeks.iv_skew),
     iv_rank |-> _serialize_distribution(greeks.iv_rank),
     policy |-> PolicyValue(greeks.policy)]

_serialize_price_efficiency(pe) ==
    [t |-> "dict",
     range_per_volume |-> _serialize_distribution(pe.range_per_volume),
     range_per_volume_pct |-> _serialize_distribution(pe.range_per_volume_pct),
     impact_per_volume |-> _serialize_distribution(pe.impact_per_volume),
     price_efficiency |-> _serialize_distribution(pe.price_efficiency),
     daily_range_pct |-> _serialize_distribution(pe.daily_range_pct),
     close_position |-> _serialize_distribution(pe.close_position),
     policy |-> PolicyValue(pe.policy)]

_serialize_baseline(baseline) ==
    [t |-> "dict",
     ticker |-> baseline.ticker,
     baseline_date |-> isoformat(baseline.baseline_date),
     lookback_days |-> baseline.lookback_days,
     data_start_date |-> isoformat(baseline.data_start_date),
     data_end_date |-> isoformat(baseline.data_end_date),
     observation_count |-> baseline.observation_count,
     missing_data_pct |-> baseline.missing_data_pct,
     schema_version |-> baseline.schema_version,
     dark_pool |-> _serialize_dark_pool(baseline.dark_pool),
     greeks |-> _serialize_greeks(baseline.greeks),
     price_efficiency |-> _serialize_price_efficiency(baseline.price_efficiency)]

_deserialize_distribution(data) ==
    IF data = None
    THEN None
    ELSE [t |-> "DistributionStats", mean |-> data.mean, std |-> data.std,
          median |-> data.median, mad |-> data.mad, p25 |-> data.p25,
          p75 |-> data.p75, p90 |-> data.p90, p95 |-> data.p95,
          min_val |-> data.min_val, max_val |-> data.max_val,
          n_observations |-> data.n_observations]

_deserialize_dark_pool(data) ==
    [t |-> "DarkPoolBaseline",
     dark_share |-> _deserialize_distribution(data.dark_share),
     dark_share_typical_range |->
         [t |-> "tuple", items |-> data.dark_share_typical_range.items],
     dark_volume |-> _deserialize_distribution(DictGet(data, "dark_volume", None)),
     daily_block_count |-> _deserialize_distribution(data.daily_block_count),
     block_size |-> _deserialize_distribution(data.block_size),
     block_premium |-> _deserialize_distribution(data.block_premium),
     venue_shift |-> _deserialize_distribution(data.venue_shift),
     policy |-> PolicyOfValue(data.policy)]

_deserialize_greeks(data) ==
    [t |-> "GreeksBaseline",
     gex |-> _deserialize_distribution(data.gex),
     gex_positive_pct |-> data.gex_positive_pct,
     gex_negative_pct |-> data.gex_negative_pct,
     dex |-> _deserialize_distribution(data.dex),
     vanna |-> _deserialize_distribution(DictGet(data, "vanna", None)),
     charm |-> _deserialize_distribution(DictGet(data, "charm", None)),
     iv_atm |-> _deserialize_distribution(DictGet(data, "iv_atm", None)),
     iv_atm_daily_change |->
         _deserialize_distribution(DictGet(data, "iv_atm_daily_change", None)),
     iv_skew |-> _deserialize_distribution(DictGet(data, "iv_skew", None)),
     iv_rank |-> _deserialize_distribution(DictGet(data, "iv_rank", None)),
     policy |-> PolicyOfValue(data.policy)]

_deserialize_price_efficiency(data) ==
    [t |-> "PriceEfficiencyBaseline",
     range_per_volume |-> _deserialize_distribution(data.range_per_volume),
     range_per_volume_pct |-> _deserialize_distribution(data.range_per_volume_pct),
     impact_per_volume |-> _deserialize_distribution(data.impact_per_volume),
     price_efficiency |-> _deserialize_distribution(data.price_efficiency),
     daily_range_pct |-> _deserialize_distribution(data.daily_range_pct),
     close_position |-> _deserialize_distribution(data.close_position),
     policy |-> PolicyOfValue(data.policy)]

\* _deserialize_baseline that always takes the default schema version
_deserialize_baseline_default_version(data) ==
    [t |-> "TickerBaseline",
     ticker |-> data.ticker,
     baseline_date |-> fromisoformat(data.baseline_date),
     lookback_days |-> data.lookback_days,
     data_start_date |-> fromisoformat(data.data_start_date),
     data_end_date |-> fromisoformat(data.data_end_date),
     observation_count |-> data.observation_count,
     missing_data_pct |-> data.missing_data_pct,
     schema_version |-> "1.0",
     dark_pool |-> _deserialize_dark_pool(data.dark_pool),
     greeks |-> _deserialize_greeks(data.greeks),
     price_efficiency |-> _deserialize_price_efficiency(data.price_efficiency)]

_deserialize_baseline(data) ==
    [t |-> "TickerBaseline",
     ticker |-> data.ticker,
     baseline_date |-> fromisoformat(data.baseline_date),
     lookback_days |-> data.lookback_days,
     data_start_date |-> fromisoformat(data.data_start_date),
     data_end_date |-> fromisoformat(data.data_end_date),
     observation_count |-> data.observation_count,
     missing_data_pct |-> data.missing_data_pct,
     schema_version |-> DictGet(data, "schema_version", "1.0"),
     dark_pool |-> _deserialize_dark_pool(data.dark_pool),
     greeks |-> _deserialize_greeks(data.greeks),
     price_efficiency |-> _deserialize_price_efficiency(data.price_efficiency)]

\* the keys of a serialized part whose value is a distribution dict or None
DistributionKeys(data) ==
    DOMAIN data \ {"t", "policy", "dark_share_typical_range",
                   "gex_positive_pct", "gex_negative_pct"}

\* json.dump of one serialized part: None is written as null
JsonDumpPart(data) ==
    [k \in DOMAIN data |->
        IF k \in DistributionKeys(data) /\ data[k] = None
        THEN JsonNull ELSE data[k]]

\* json.load of one part: null is read as None
JsonLoadPart(text) ==
    [k \in DOMAIN text |->
        IF k \in DistributionKeys(text) /\ text[k] = JsonNull
        THEN None ELSE text[k]]

\* json.dump(data, f): the text of the file
json_dump(data) ==
    [data EXCEPT !.dark_pool = JsonDumpPart(@),
                 !.greeks = JsonDumpPart(@),
                 !.price_efficiency = JsonDumpPart(@)]

\* json.load(f)
json_load(text) ==
    [text EXCEPT !.dark_pool = JsonLoadPart(@),
                 !.greeks = JsonLoadPart(@),
                 !.price_efficiency = JsonLoadPart(@)]

\* _baseline_path(ticker): the file name without directory and suffix
_baseline_path(ticker) == IF ticker = "aapl" THEN "AAPL" ELSE ticker

\* save(baseline): the files of the directory afterwards
save(baseline) ==
    [path \in {_baseline_path(baseline.ticker)} |->
        json_dump(_serialize_baseline(baseline))]

\* load(ticker) from those files
load(files, ticker) ==
    IF _baseline_path(ticker) \notin DOMAIN files
    THEN None
    ELSE _deserialize_baseline(json_load(files[_baseline_path(ticker)]))

\* _deserialize_baseline(_serialize_baseline(b))
SerializeDeserialize ==
    /\ fnArgs.fn = "round_trip"
    /\ ~fnResult.done
    /\ fnResult' =
         [done |-> TRUE, via |-> "dict",
          baseline |-> _deserialize_baseline(_serialize_baseline(fnArgs.baseline))]
    /\ UNCHANGED <<fnArgs, clsVars, scVars, plVars, stVars, rwVars, nmVars>>

\* save(b) followed by load(b.ticker)
SaveLoad ==
    /\ fnArgs.fn = "round_trip"
    /\ ~fnResult.done
    /\ fnResult' =
         [done |-> TRUE, via |-> "file",
          baseline |-> load(save(fnArgs.baseline), fnArgs.baseline.ticker)]
    /\ UNCHANGED <<fnArgs, clsVars, scVars, plVars, stVars, rwVars, nmVars>>

----------------------------------------------------------------------------
(* baseline/calculator.py compute_distribution_stats *)

\* core/constants.py
MIN_OBSERVATIONS == 21

\* n copies of value v
Repeat(v, n) == [i \in 1..n |-> v]

\* sample lists: tens, a few twenties, one far value, and None and NaN entries
SampleLists ==
    {Repeat(Num(10), n10) \o missing \o Repeat(Num(20), n20) \o far :
        n10 \in 18..22, n20 \in {0, 2},
        missing \in {<<>>, <<Absent, NaN>>},
        far \in {<<>>, <<Num(1000)>>}}

DistributionArgs ==
    {[fn |-> "compute_distribution_stats", values |-> vs,
      remove_outliers |-> ro, outlier_std |-> k] :
        vs \in SampleLists, ro \in BOOLEAN, k \in {2, 3}}

\* [v for v in values if v is not None and not np.isnan(v)]
FilterValid(values) ==
    [i \in 1..Len(SelectSeq(values, LAMBDA x : x.kind = "num")) |->
        SelectSeq(values, LAMBDA x : x.kind = "num")[i].v]

SumOfSquares(arr) == SumSeq([i \in 1..Len(arr) |-> arr[i] * arr[i]])

\* n * n * variance of arr (np.std is the population deviation): std > 0 iff
\* this is positive
ScaledVariance(arr) == Len(arr) * SumOfSquares(arr) - SumSeq(arr) * SumSeq(arr)

\* arr[np.abs(arr - mean) <= outlier_std * std], compared on the squares
\* scaled by n * n
TrimOutliers(arr, outlier_std) ==
    SelectSeq(arr,
              LAMBDA x : (Len(arr) * x - SumSeq(arr)) * (Len(arr) * x - SumSeq(arr))
                           <= outlier_std * outlier_std * ScaledVariance(arr))

RECURSIVE SortAscending(_)
SortAscending(arr) ==
    IF arr = <<>>
    THEN <<>>
    ELSE LET x == Head(arr)
             rest == SortAscending(Tail(arr))
         IN  SelectSeq(rest, LAMBDA y : y <= x) \o <<x>>
             \o SelectSeq(rest, LAMBDA y : y > x)

\* the statistics of the result that the model follows: twice the median, so
\* that the mean of two middle values stays a whole number
StatsOf(arr) ==
    LET sorted == SortAscending(arr)
        n == Len(arr)
    IN  [t |-> "DistributionStats",
         n_observations |-> n,
         min_val |-> sorted[1],
         max_val |-> sorted[n],
         median2 |-> IF n % 2 = 1
                     THEN 2 * sorted[(n + 1) \div 2]
                     ELSE sorted[n \div 2] + sorted[n \div 2 + 1],
         total |-> SumSeq(arr)]

compute_distribution_stats(values, remove_outliers, outlier_std) ==
    LET arr == FilterValid(values)
        trimmed ==
            IF remove_outliers /\ Len(arr) > MIN_OBSERVATIONS
                 /\ ScaledVariance(arr) > 0
            THEN TrimOutliers(arr, outlier_std)
            ELSE arr
    IN  IF Len(arr) < MIN_OBSERVATIONS
        THEN None
        ELSE IF Len(trimmed) < MIN_OBSERVATIONS
             THEN None
             ELSE StatsOf(trimmed)

ComputeDistributionStats ==
    /\ fnArgs.fn = "compute_distribution_stats"
    /\ ~fnResult.done
    /\ fnResult' =
         [done |-> TRUE,
          stats |-> compute_distribution_stats(fnArgs.values,
                                               fnArgs.remove_outliers,
                                               fnArgs.outlier_std)]
    /\ UNCHANGED <<fnArgs, clsVars, scVars, plVars, stVars, rwVars, nmVars>>

----------------------------------------------------------------------------
(* baseline/calculator.py BaselineCalculator.compute_baseline *)

\* The historical DataFrame: the dates of its rows (day numbers, in row
\* order) and, per column, whether the frame has it and what its cells hold:
\* "absent" (no such column), "nan" (every cell NaN), "zero" (every cell 0) or
\* "num" (the cell of a row holds the day number of the row; the close is one
\* above it and the high two above it, so that the day's range is not empty).
DataColumns ==
    {"dark_pool_ratio", "dark_pool_volume", "total_volume", "block_trade_count",
     "block_trade_size_avg", "block_premium", "venue_shift", "gex", "dex",
     "vanna", "charm", "iv_atm", "iv_skew", "iv_rank", "daily_range_pct",
     "volume", "impact_per_vol", "price_efficiency", "close_price",
     "low_price", "high_price"}

DataFrame(has_date, dates, kinds) ==
    [has_date |-> has_date, dates |-> dates, kinds |-> kinds]

\* df[col] over the rows of df
Column(df, col) ==
    [i \in 1..Len(df.dates) |->
        CASE df.kinds[col] = "num" /\ col = "close_price" -> Num(df.dates[i] + 1)
          [] df.kinds[col] = "num" /\ col = "high_price" -> Num(df.dates[i] + 2)
          [] df.kinds[col] = "num" -> Num(df.dates[i])
          [] df.kinds[col] = "zero" -> Num(0)
          [] OTHER -> NaN]

\* col in df.columns
HasColumn(df, col) == df.kinds[col] # "absent"

\* Series.dropna()
dropna(series) == SelectSeq(series, LAMBDA x : x.kind = "num")

\* a / b cell by cell, with b.replace(0, np.nan): NaN where either is NaN or
\* the divisor is 0; the quotient itself is kept as floor(100 * a / b)
Quotient(a, b) ==
    [i \in 1..Len(a) |->
        IF a[i].kind = "num" /\ b[i].kind = "num" /\ b[i].v # 0
        THEN Num((100 * a[i].v) \div b[i].v)
        ELSE NaN]

\* Series.diff(): NaN in the first row
Diff(series) ==
    [i \in 1..Len(series) |->
        IF i > 1 /\ series[i].kind = "num" /\ series[i - 1].kind = "num"
        THEN Num(series[i].v - series[i - 1].v)
        ELSE NaN]

\* the canned distributions substituted for a slot without data; mean, std,
\* min_val and max_val in hundredths
CannedStats(mean, std, min_val, max_val, n) ==
    [t |-> "DistributionStats", canned |-> TRUE, mean |-> mean, std |-> std,
     min_val |-> min_val, max_val |-> max_val, n_observations |-> n]

\* stats if it could be computed, else the canned distribution
OrCanned(stats, canned) == IF stats = None THEN canned ELSE stats

\* compute_distribution_stats(df[col]...) when the frame has the column
ColumnStats(df, col, remove_outliers) ==
    IF HasColumn(df, col)
    THEN compute_distribution_stats(dropna(Column(df, col)), remove_outliers, 3)
    ELSE None

\* the stats of a derived series that the code computes only when at least
\* min_observations values are left
GuardedStats(series, min_observations) ==
    IF Len(dropna(series)) >= min_observations
    THEN compute_distribution_stats(dropna(series), FALSE, 3)
    ELSE None

_compute_dark_pool_baseline(df) ==
    LET direct == IF HasColumn(df, "dark_pool_ratio")
                  THEN compute_distribution_stats(Column(df, "dark_pool_ratio"),
                                                  FALSE, 3)
                  ELSE None
        dark_share ==
            IF direct = None /\ HasColumn(df, "dark_pool_volume")
                 /\ HasColumn(df, "total_volume")
            THEN compute_distribution_stats(
                     Quotient(Column(df, "dark_pool_volume"),
                              Column(df, "total_volume")), FALSE, 3)
            ELSE direct
        n == Len(df.dates)
    IN  IF dark_share = None
        THEN None
        ELSE [t |-> "DarkPoolBaseline",
              dark_share |-> dark_share,
              dark_volume |-> ColumnStats(df, "dark_pool_volume", TRUE),
              daily_block_count |->
                  OrCanned(ColumnStats(df, "block_trade_count", FALSE),
                           CannedStats(0, 0, 0, 0, n)),
              block_size |->
                  OrCanned(ColumnStats(df, "block_trade_size_avg", TRUE),
                           CannedStats(0, 0, 0, 0, n)),
              block_premium |->
                  OrCanned(ColumnStats(df, "block_premium", TRUE),
                           CannedStats(0, 0, 0, 0, n)),
              venue_shift |->
                  OrCanned(ColumnStats(df, "venue_shift", FALSE),
                           CannedStats(0, 100, -500, 500, n))]

\* _compute_greeks_baseline that gives up when DEX cannot be computed
_compute_greeks_baseline_requires_dex(df, min_observations) ==
    IF ColumnStats(df, "gex", FALSE) = None \/ ColumnStats(df, "dex", FALSE) = None
    THEN None
    ELSE [t |-> "GreeksBaseline",
          gex |-> ColumnStats(df, "gex", FALSE),
          dex |-> ColumnStats(df, "dex", FALSE),
          vanna |-> ColumnStats(df, "vanna", FALSE),
          charm |-> ColumnStats(df, "charm", FALSE),
          iv_atm |-> ColumnStats(df, "iv_atm", FALSE),
          iv_atm_daily_change |->
              IF HasColumn(df, "iv_atm")
              THEN GuardedStats(Diff(Column(df, "iv_atm")), min_observations)
              ELSE None,
          iv_skew |-> ColumnStats(df, "iv_skew", FALSE),
          iv_rank |-> ColumnStats(df, "iv_rank", FALSE)]

_compute_greeks_baseline(df, min_observations) ==
    IF ColumnStats(df, "gex", FALSE) = None
    THEN None
    ELSE [t |-> "GreeksBaseline",
          gex |-> ColumnStats(df, "gex", FALSE),
          dex |-> OrCanned(ColumnStats(df, "dex", FALSE),
                           CannedStats(0, 100000000, -1000000000, 1000000000,
                                       Len(df.dates))),
          vanna |-> ColumnStats(df, "vanna", FALSE),
          charm |-> ColumnStats(df, "charm", FALSE),
          iv_atm |-> ColumnStats(df, "iv_atm", FALSE),
          iv_atm_daily_change |->
              IF HasColumn(df, "iv_atm")
              THEN GuardedStats(Diff(Column(df, "iv_atm")), min_observations)
              ELSE None,
          iv_skew |-> ColumnStats(df, "iv_skew", FALSE),
          iv_rank |-> ColumnStats(df, "iv_rank", FALSE)]

\* np.log1p(volume): 0 at volume 0, positive and growing above it; the model
\* keeps it rounded up to a whole number for the volumes it uses
log1p(v) ==
    CASE v = 0 -> 0
      [] v \in 1..1 -> 1
      [] v \in 2..6 -> 2
      [] v \in 7..19 -> 3
      [] v \in 20..53 -> 4
      [] v \in 54..147 -> 5

_compute_price_efficiency_baseline(df, min_observations) ==
    LET n == Len(df.dates)
        rpv == IF HasColumn(df, "daily_range_pct") /\ HasColumn(df, "volume")
               THEN GuardedStats(
                        Quotient(Column(df, "daily_range_pct"),
                                 [i \in 1..n |->
                                     IF Column(df, "volume")[i].kind = "num"
                                     THEN Num(log1p(Column(df, "volume")[i].v))
                                     ELSE NaN]),
                        min_observations)
               ELSE None
        range_per_volume == OrCanned(rpv, CannedStats(0, 100, -500, 500, n))
        close_position ==
            IF HasColumn(df, "close_price") /\ HasColumn(df, "low_price")
                 /\ HasColumn(df, "high_price")
            THEN GuardedStats(
                     Quotient(
                         [i \in 1..n |->
                             IF Column(df, "close_price")[i].kind = "num"
                                  /\ Column(df, "low_price")[i].kind = "num"
                             THEN Num(Column(df, "close_price")[i].v
                                        - Column(df, "low_price")[i].v)
                             ELSE NaN],
                         [i \in 1..n |->
                             IF Column(df, "high_price")[i].kind = "num"
                                  /\ Column(df, "low_price")[i].kind = "num"
                             THEN Num(Column(df, "high_price")[i].v
                                        - Column(df, "low_price")[i].v)
                             ELSE NaN]),
                     min_observations)
            ELSE None
    IN  [t |-> "PriceEfficiencyBaseline",
         range_per_volume |-> range_per_volume,
         range_per_volume_pct |-> range_per_volume,
         impact_per_volume |->
             OrCanned(ColumnStats(df, "impact_per_vol", FALSE),
                      CannedStats(0, 100, -500, 500, n)),
         price_efficiency |->
             OrCanned(ColumnStats(df, "price_efficiency", FALSE),
                      CannedStats(5000, 2000, 0, 10000, n)),
         daily_range_pct |->
             OrCanned(ColumnStats(df, "daily_range_pct", FALSE),
                      CannedStats(100, 50, 10, 500, n)),
         close_position |->
             OrCanned(close_position, CannedStats(50, 20, 0, 100, n))]

\* df["date"].max()
MaxDate(dates) == CHOOSE d \in {dates[i] : i \in 1..Len(dates)} :
                      \A i \in 1..Len(dates) : dates[i] <= d

\* the rows from the start of the buffer to as_of_date, sorted by date, with
\* every row kept (no tail)
SelectWindowNoTail(dates, as_of_date, lookback_days) ==
    LET start_date == as_of_date - (lookback_days * 3) \div 2
    IN  SortAscending(SelectSeq(dates,
                                LAMBDA d : d >= start_date /\ d <= as_of_date))

\* df[(date >= start_date) & (date <= as_of_date)].sort_values("date")
\*   .tail(lookback_days), start_date = as_of_date - int(lookback_days * 1.5) days
SelectWindow(dates, as_of_date, lookback_days) ==
    LET start_date == as_of_date - (lookback_days * 3) \div 2
        sorted == SortAscending(SelectSeq(dates,
                                LAMBDA d : d >= start_date /\ d <= as_of_date))
    IN  SliceLast(sorted, lookback_days)

\* the columns whose missing cells count for missing_data_pct
ExpectedFields ==
    <<"dark_pool_ratio", "gex", "dex", "price_efficiency", "daily_range_pct",
      "block_trade_count">>

\* missing_pct in hundredths of a percent
MissingDataPct(df) ==
    LET n == Len(df.dates)
        missing_count ==
            SumSeq([k \in 1..Len(ExpectedFields) |->
                       n - Len(dropna(Column(df, ExpectedFields[k])))])
    IN  IF Len(ExpectedFields) * n > 0
        THEN (missing_count * 10000) \div (Len(ExpectedFields) * n)
        ELSE 10000

\* compute_baseline; as_of_date 0 stands for None
compute_baseline(df, as_of_date, lookback_days, min_observations) ==
    IF df.dates = <<>> \/ ~df.has_date
    THEN None
    ELSE LET as_of == IF as_of_date = 0 THEN MaxDate(df.dates) ELSE as_of_date
             window == [df EXCEPT !.dates = SelectWindow(df.dates, as_of,
                                                         lookback_days)]
             dark_pool == _compute_dark_pool_baseline(window)
             greeks == _compute_greeks_baseline(window, min_observations)
             price_eff == _compute_price_efficiency_baseline(window,
                                                             min_observations)
         IN  IF Len(window.dates) < min_observations
             THEN None
             ELSE IF dark_pool = None \/ greeks = None
                  THEN None
                  ELSE [t |-> "TickerBaseline",
                        baseline_date |-> as_of,
                        lookback_days |-> lookback_days,
                        data_start_date |-> window.dates[1],
                        data_end_date |-> window.dates[Len(window.dates)],
                        dark_pool |-> dark_pool,
                        greeks |-> greeks,
                        price_efficiency |-> price_eff,
                        observation_count |-> Len(window.dates),
                        missing_data_pct |-> MissingDataPct(window)]

\* day numbers first, first + stride, ...
Days(first, count, stride) == [i \in 1..count |-> first + (i - 1) * stride]

Reversed(seq) == [i \in 1..Len(seq) |-> seq[Len(seq) + 1 - i]]

FrameDates ==
    {Days(1, n, 1) : n \in {20, 21, 25, 30, 40, 60}}
        \cup {Days(1, 30, 2), Reversed(Days(1, 40, 1)), <<>>}

FullFrame == [c \in DataColumns |-> "num"]

\* column profiles: which inputs the frame has
ColumnProfiles ==
    {[c \in DataColumns |->
        CASE c = "gex" -> gex
          [] c = "dark_pool_ratio" -> ratio
          [] c \in {"dark_pool_volume", "total_volume"} -> volumes
          [] c \in {"block_trade_count", "block_trade_size_avg",
                    "block_premium", "venue_shift"} -> blocks
          [] c = "dex" -> dex
          [] c \in {"vanna", "charm", "iv_atm", "iv_skew", "iv_rank"} -> optional
          [] c = "volume" -> volume
          [] OTHER -> pe] :
        gex \in {"absent", "nan", "num"}, ratio \in {"absent", "num"},
        volumes \in {"absent", "num"}, blocks \in {"absent", "nan", "num"},
        dex \in {"absent", "num"}, optional \in {"absent", "nan", "num"},
        volume \in {"absent", "zero", "num"}, pe \in {"absent", "num"}}

BaselineArgs ==
    {[fn |-> "compute_baseline", df |-> DataFrame(TRUE, dates, FullFrame),
      as_of_date |-> as_of, lookback_days |-> lb, min_observations |-> mo] :
        dates \in FrameDates, as_of \in {0, 27, 45}, lb \in {23, 30},
        mo \in {21, 25}}
    \cup
    {[fn |-> "compute_baseline", df |-> DataFrame(hd, Days(1, 30, 1), kinds),
      as_of_date |-> 0, lookback_days |-> 30, min_observations |-> 21] :
        hd \in BOOLEAN, kinds \in ColumnProfiles}

ComputeBaseline ==
    /\ fnArgs.fn = "compute_baseline"
    /\ ~fnResult.done
    /\ fnResult' =
         [done |-> TRUE,
          baseline |-> compute_baseline(fnArgs.df, fnArgs.as_of_date,
                                        fnArgs.lookback_days,
                                        fnArgs.min_observations)]
    /\ UNCHANGED <<fnArgs, clsVars, scVars, plVars, stVars, rwVars, nmVars>>

----------------------------------------------------------------------------
(* guardrails/validators.py check_baseline_drift *)

DEFAULT_DRIFT_THRESHOLD_PCT == 15

\* metrics_to_check: the dotted path split into its keys, and the metric name
metrics_to_check ==
    << [path |-> <<"dark_pool", "dark_share", "mean">>,
        name |-> "Dark Pool Share Mean"],
       [path |-> <<"dark_pool", "dark_share", "std">>,
        name |-> "Dark Pool Share Std"],
       [path |-> <<"greeks", "gex", "mean">>, name |-> "GEX Mean"],
       [path |-> <<"greeks", "gex", "std">>, name |-> "GEX Std"],
       [path |-> <<"greeks", "dex", "mean">>, name |-> "DEX Mean"],
       [path |-> <<"price_efficiency", "daily_range_pct", "mean">>,
        name |-> "Daily Range Mean"] >>

\* isinstance(value, dict)
IsDict(value) == "t" \in DOMAIN value /\ value.t = "dict"

RECURSIVE _get_nested_value(_, _)
_get_nested_value(data, keys) ==
    IF keys = <<>>
    THEN data
    ELSE IF IsDict(data) /\ Head(keys) \in DOMAIN data
         THEN _get_nested_value(data[Head(keys)], Tail(keys))
         ELSE None

\* change_pct = ((new - old) / abs(old)) * 100, kept as the fraction num / den
ChangePct(old_value, new_value) ==
    IF old_value.kind = "nan" \/ new_value.kind = "nan"
    THEN [nan |-> TRUE, num |-> 0, den |-> 1]
    ELSE [nan |-> FALSE, num |-> (new_value.v - old_value.v) * 100,
          den |-> Abs(old_value.v)]

\* abs(change_pct) > threshold_pct; False for a NaN change
ExceedsThreshold(change_pct, threshold_pct) ==
    ~change_pct.nan /\ Abs(change_pct.num) > threshold_pct * change_pct.den

BaselineDriftWarning(ticker, metric, old_value, new_value, change_pct, threshold_pct, baseline_date) ==
    [t |-> "BaselineDriftWarning", ticker |-> ticker, metric |-> metric,
     old_value |-> old_value, new_value |-> new_value,
     change_pct |-> change_pct, threshold_pct |-> threshold_pct,
     baseline_date |-> baseline_date]

\* the loop over metrics_to_check from metric i on; acc holds the warnings
\* list and the lines written to the logger so far
RECURSIVE DriftLoop(_, _, _, _, _, _, _)
DriftLoop(i, old_baseline, new_baseline, threshold_pct, ticker, baseline_date, acc) ==
    IF i > Len(metrics_to_check)
    THEN acc
    ELSE LET metric_name == metrics_to_check[i].name
             old_value == _get_nested_value(old_baseline, metrics_to_check[i].path)
             new_value == _get_nested_value(new_baseline, metrics_to_check[i].path)
             change_pct == ChangePct(old_value, new_value)
             warning == BaselineDriftWarning(ticker, metric_name, old_value,
                                             new_value, change_pct,
                                             threshold_pct, baseline_date)
             next ==
                 IF old_value = None \/ new_value = None
                 THEN acc
                 ELSE IF old_value = Num(0)
                      THEN IF new_value # Num(0)
                           THEN [acc EXCEPT !.log =
                                    Append(@, [line |-> "BASELINE_DRIFT",
                                               metric |-> metric_name])]
                           ELSE acc
                      ELSE IF ExceedsThreshold(change_pct, threshold_pct)
                           THEN [warnings |-> Append(acc.warnings, warning),
                                 log |-> Append(acc.log,
                                            [line |-> "BASELINE_DRIFT_WARNING",
                                             metric |-> metric_name])]
                           ELSE acc
         IN  DriftLoop(i + 1, old_baseline, new_baseline, threshold_pct, ticker,
                       baseline_date, next)

\* date.today()
Today == Date(2024, 6, 1)

\* what the call returns to its caller and what it wrote to the logger
check_baseline_drift(old_baseline, new_baseline, threshold_pct) ==
    LET ticker == DictGet(new_baseline, "ticker", "UNKNOWN")
        baseline_date ==
            fromisoformat(DictGet(new_baseline, "baseline_date",
                                  isoformat(Today)))
        acc == DriftLoop(1, old_baseline, new_baseline, threshold_pct, ticker,
                         baseline_date, [warnings |-> <<>>, log |-> <<>>])
    IN  [outcome |-> "return", warnings |-> acc.warnings, log |-> acc.log]

\* a serialized distribution with the two statistics drift looks at; Absent
\* leaves the key out
StatsDict(mean, std) ==
    [k \in {"t"} \cup (IF mean = Absent THEN {} ELSE {"mean"})
                 \cup (IF std = Absent THEN {} ELSE {"std"}) |->
        CASE k = "t" -> "dict" [] k = "mean" -> mean [] k = "std" -> std]

\* a serialized baseline; shape "full" has every section, "no_greeks" lacks
\* the greeks section, "flat" holds a number where the dark_pool section
\* should be
BaselineDict(shape, dark_mean, gex_mean, dated) ==
    LET sections ==
            [k \in ({"t", "ticker", "dark_pool", "price_efficiency"}
                      \cup (IF shape = "no_greeks" THEN {} ELSE {"greeks"})
                      \cup (IF dated THEN {"baseline_date"} ELSE {})) |->
                CASE k = "t" -> "dict"
                  [] k = "ticker" -> "SPY"
                  [] k = "baseline_date" -> isoformat(Date(2024, 1, 15))
                  [] k = "dark_pool" ->
                        IF shape = "flat"
                        THEN Num(7)
                        ELSE [t |-> "dict",
                              dark_share |-> StatsDict(dark_mean, Num(10))]
                  [] k = "greeks" ->
                        [t |-> "dict", gex |-> StatsDict(gex_mean, Num(0)),
                         dex |-> StatsDict(None, Absent)]
                  [] k = "price_efficiency" ->
                        [t |-> "dict",
                         daily_range_pct |-> StatsDict(Num(200), Absent)]]
    IN  sections

OldMetricValues == {Absent, None, Num(0), Num(100), Num(-100), NaN}

NewMetricValues ==
    {Absent, None, Num(0), Num(100), Num(114), Num(115), Num(116), Num(85),
     Num(84), Num(-100), Num(-116), NaN}

DriftArgs ==
    {[fn |-> "check_baseline_drift",
      old_baseline |-> BaselineDict(old_shape, old_dark, Num(-100), TRUE),
      new_baseline |-> BaselineDict(new_shape, new_dark, new_gex, dated),
      threshold_pct |-> thr] :
        old_shape \in {"full", "flat"}, new_shape \in {"full", "no_greeks"},
        old_dark \in OldMetricValues, new_dark \in NewMetricValues,
        new_gex \in {Num(-100), Num(-40)}, dated \in BOOLEAN,
        thr \in {DEFAULT_DRIFT_THRESHOLD_PCT, 50}}

CheckBaselineDrift ==
    /\ fnArgs.fn = "check_baseline_drift"
    /\ ~fnResult.done
    /\ fnResult' =
         [done |-> TRUE,
          result |-> check_baseline_drift(fnArgs.old_baseline,
                                          fnArgs.new_baseline,
                                          fnArgs.threshold_pct)]
    /\ UNCHANGED <<fnArgs, clsVars, scVars, plVars, stVars, rwVars, nmVars>>

----------------------------------------------------------------------------
(* ingest/base.py BaseAPIClient._request *)

\* the largest max_retries a client is built with here
MaxRetries == 3

\* the JSON bodies of a response and of a cache file
Payloads == {"fresh", "stale"}

\* Retry-After headers of a 429 response: none, delay seconds, an HTTP date
RetryAfterHeaders ==
    {Absent, [t |-> "str", digits |-> TRUE, value |-> 5],
     [t |-> "str", digits |-> FALSE, value |-> 0]}

\* what one HTTP attempt can come to: a response with a status, or a
\* transport error (httpx.RequestError: timeout, connection failure)
ServerOutcomes ==
    {[kind |-> "response", status |-> 200, data |-> d, retry_after |-> Absent] :
        d \in Payloads}
    \cup {[kind |-> "response", status |-> st, data |-> "", retry_after |-> Absent] :
            st \in {400, 404, 500, 503}}
    \cup {[kind |-> "response", status |-> 429, data |-> "", retry_after |-> h] :
            h \in RetryAfterHeaders}
    \cup {[kind |-> "RequestError", status |-> 0, data |-> "",
           retry_after |-> Absent]}

\* int(e.response.headers.get("Retry-After", 60)); int() of text that is not
\* a number raises ValueError
RetryAfterSeconds(header) ==
    IF header = Absent
    THEN [ok |-> TRUE, seconds |-> 60]
    ELSE IF header.digits
         THEN [ok |-> TRUE, seconds |-> header.value]
         ELSE [ok |-> FALSE, seconds |-> 0]

\* 2 ** attempt
Backoff(attempt) == 2 ^ attempt

RequestArgs ==
    {[fn |-> "_request", max_retries |-> mr, client |-> cl,
      cache_key_parts |-> ckp, cached |-> c] :
        mr \in 0..MaxRetries, cl \in BOOLEAN, ckp \in BOOLEAN,
        c \in {None, [t |-> "json", data |-> "stale"]}}

\* the coroutine once it has ended
Returned(st, data) ==
    [st EXCEPT !.done = TRUE, !.pc = "returned", !.data = data]

Raised(st, exception, status_code) ==
    [st EXCEPT !.done = TRUE, !.pc = "raised", !.exception = exception,
               !.status_code = status_code]

\* _request up to the first await: the client check, the cache lookup and the
\* entry of the retry loop
RequestEnter ==
    /\ fnArgs.fn = "_request"
    /\ "pc" \notin DOMAIN fnResult
    /\ LET st == [done |-> FALSE, pc |-> "acquire", attempt |-> 0,
                  attempts |-> 0, last |-> Absent, wait |-> 0,
                  cache |-> IF fnArgs.cache_key_parts THEN fnArgs.cached
                            ELSE None,
                  data |-> "", exception |-> "", status_code |-> 0]
       IN  fnResult' =
             IF ~fnArgs.client
             THEN Raised(st, "RuntimeError", 0)
             ELSE IF fnArgs.cache_key_parts /\ fnArgs.cached # None
                  THEN Returned(st, fnArgs.cached.data)
                  ELSE IF fnArgs.max_retries = 0
                       THEN Raised(st, "DataFetchError", 0)
                       ELSE st
    /\ UNCHANGED <<fnArgs, clsVars, scVars, plVars, stVars, rwVars, nmVars>>

\* await self.rate_limiter.acquire() comes back
AcquireToken ==
    /\ fnArgs.fn = "_request"
    /\ "pc" \in DOMAIN fnResult
    /\ fnResult.pc = "acquire"
    /\ fnResult' = [fnResult EXCEPT !.pc = "request"]
    /\ UNCHANGED <<fnArgs, clsVars, scVars, plVars, stVars, rwVars, nmVars>>

\* one HTTP attempt and what the loop body does with its outcome
SendRequest ==
    /\ fnArgs.fn = "_request"
    /\ "pc" \in DOMAIN fnResult
    /\ fnResult.pc = "request"
    /\ \E o \in ServerOutcomes :
         LET st == [fnResult EXCEPT !.attempts = @ + 1, !.last = o]
         IN  fnResult' =
               CASE o.kind = "RequestError" ->
                      [st EXCEPT !.pc = "sleep", !.wait = Backoff(st.attempt)]
                 [] o.kind = "response" /\ o.status = 200 ->
                      Returned([st EXCEPT !.cache =
                                   IF fnArgs.cache_key_parts
                                   THEN [t |-> "json", data |-> o.data]
                                   ELSE @],
                               o.data)
                 [] o.kind = "response" /\ o.status = 429 ->
                      IF RetryAfterSeconds(o.retry_after).ok
                      THEN [st EXCEPT !.pc = "sleep",
                               !.wait = RetryAfterSeconds(o.retry_after).seconds]
                      ELSE Raised(st, "ValueError", 0)
                 [] o.kind = "response" /\ o.status >= 500 ->
                      [st EXCEPT !.pc = "sleep", !.wait = Backoff(st.attempt)]
                 [] OTHER -> Raised(st, "DataFetchError", o.status)
    /\ UNCHANGED <<fnArgs, clsVars, scVars, plVars, stVars, rwVars, nmVars>>

\* await asyncio.sleep(...) comes back and the loop goes on, or is exhausted
Wake ==
    /\ fnArgs.fn = "_request"
    /\ "pc" \in DOMAIN fnResult
    /\ fnResult.pc = "sleep"
    /\ fnResult' =
         IF fnResult.attempt + 1 < fnArgs.max_retries
         THEN [fnResult EXCEPT !.pc = "acquire", !.attempt = @ + 1, !.wait = 0]
         ELSE Raised([fnResult EXCEPT !.wait = 0], "DataFetchError", 0)
    /\ UNCHANGED <<fnArgs, clsVars, scVars, plVars, stVars, rwVars, nmVars>>

----------------------------------------------------------------------------
(* Specifications *)

\* a classifier about to be handed one feature map; nothing else is built
InitClassifier ==
    /\ clsFeatures \in FeatureMaps
    /\ clsResult = NoResult
    /\ clsTopDrivers = <<>>
    /\ scoreWeights = SCORE_WEIGHTS
    /\ engState = "none"
    /\ history_window = 0
    /\ score_history = <<>>
    /\ recorded = <<>>
    /\ lastScore = NoScore
    /\ calls = 0
    /\ plStorage = [t \in Tickers |-> NullBaseline]
    /\ plBaselines = [t \in Tickers |-> NullBaseline]
    /\ require_baseline = FALSE
    /\ plQueue = <<>>
    /\ plResults = <<>>
    /\ plScoreHistory = <<>>
    /\ plScoreOwner = <<>>
    /\ plRuns = 0
    /\ stFile = NoFile
    /\ stCommitted = -1
    /\ stSave = [pc |-> "idle", ver |-> 0]
    /\ stLoad = NotLoading
    /\ rwWindow = 0
    /\ rwValues = <<>>
    /\ rwInputs = <<>>
    /\ nmConfig = NoNormConfig
    /\ nmValues = <<>>
    /\ nmResult = NoNormResult
    /\ fnArgs = NoArgs
    /\ fnResult = NoCall

\* an engine constructed with the default window and a score history
InitCalculate ==
    /\ clsFeatures = [k \in ClsKeys |-> Absent]
    /\ clsResult = NoResult
    /\ clsTopDrivers = <<>>
    /\ scoreWeights = SCORE_WEIGHTS
    /\ engState = "ready"
    /\ history_window = DEFAULT_HISTORY_WINDOW
    /\ score_history \in CalculateHistories
    /\ recorded = score_history
    /\ lastScore = NoScore
    /\ calls = 0
    /\ plStorage = [t \in Tickers |-> NullBaseline]
    /\ plBaselines = [t \in Tickers |-> NullBaseline]
    /\ require_baseline = FALSE
    /\ plQueue = <<>>
    /\ plResults = <<>>
    /\ plScoreHistory = <<>>
    /\ plScoreOwner = <<>>
    /\ plRuns = 0
    /\ stFile = NoFile
    /\ stCommitted = -1
    /\ stSave = [pc |-> "idle", ver |-> 0]
    /\ stLoad = NotLoading
    /\ rwWindow = 0
    /\ rwValues = <<>>
    /\ rwInputs = <<>>
    /\ nmConfig = NoNormConfig
    /\ nmValues = <<>>
    /\ nmResult = NoNormResult
    /\ fnArgs = NoArgs
    /\ fnResult = NoCall

\* an engine about to be constructed from one weight table
InitScorer ==
    /\ clsFeatures = [k \in ClsKeys |-> Absent]
    /\ clsResult = NoResult
    /\ clsTopDrivers = <<>>
    /\ scoreWeights \in WeightVectors
    /\ engState = "none"
    /\ history_window = 0
    /\ score_history = <<>>
    /\ recorded = <<>>
    /\ lastScore = NoScore
    /\ calls = 0
    /\ plStorage = [t \in Tickers |-> NullBaseline]
    /\ plBaselines = [t \in Tickers |-> NullBaseline]
    /\ require_baseline = FALSE
    /\ plQueue = <<>>
    /\ plResults = <<>>
    /\ plScoreHistory = <<>>
    /\ plScoreOwner = <<>>
    /\ plRuns = 0
    /\ stFile = NoFile
    /\ stCommitted = -1
    /\ stSave = [pc |-> "idle", ver |-> 0]
    /\ stLoad = NotLoading
    /\ rwWindow = 0
    /\ rwValues = <<>>
    /\ rwInputs = <<>>
    /\ nmConfig = NoNormConfig
    /\ nmValues = <<>>
    /\ nmResult = NoNormResult
    /\ fnArgs = NoArgs
    /\ fnResult = NoCall

\* a DailyPipeline after __init__: empty baseline cache, one fresh scorer
InitPipeline ==
    /\ clsFeatures = [k \in ClsKeys |-> Absent]
    /\ clsResult = NoResult
    /\ clsTopDrivers = <<>>
    /\ scoreWeights = SCORE_WEIGHTS
    /\ engState = "none"
    /\ history_window = 0
    /\ score_history = <<>>
    /\ recorded = <<>>
    /\ lastScore = NoScore
    /\ calls = 0
    /\ plStorage \in [Tickers -> {NullBaseline, SampleBaseline}]
    /\ plBaselines = [t \in Tickers |-> NullBaseline]
    /\ require_baseline \in BOOLEAN
    /\ plQueue = <<>>
    /\ plResults = <<>>
    /\ plScoreHistory = <<>>
    /\ plScoreOwner = <<>>
    /\ plRuns = 0
    /\ stFile = NoFile
    /\ stCommitted = -1
    /\ stSave = [pc |-> "idle", ver |-> 0]
    /\ stLoad = NotLoading
    /\ rwWindow = 0
    /\ rwValues = <<>>
    /\ rwInputs = <<>>
    /\ nmConfig = NoNormConfig
    /\ nmValues = <<>>
    /\ nmResult = NoNormResult
    /\ fnArgs = NoArgs
    /\ fnResult = NoCall

\* the baseline file of one ticker: absent, or one complete saved baseline
InitStorage ==
    /\ clsFeatures = [k \in ClsKeys |-> Absent]
    /\ clsResult = NoResult
    /\ clsTopDrivers = <<>>
    /\ scoreWeights = SCORE_WEIGHTS
    /\ engState = "none"
    /\ history_window = 0
    /\ score_history = <<>>
    /\ recorded = <<>>
    /\ lastScore = NoScore
    /\ calls = 0
    /\ plStorage = [t \in Tickers |-> NullBaseline]
    /\ plBaselines = [t \in Tickers |-> NullBaseline]
    /\ require_baseline = FALSE
    /\ plQueue = <<>>
    /\ plResults = <<>>
    /\ plScoreHistory = <<>>
    /\ plScoreOwner = <<>>
    /\ plRuns = 0
    /\ stFile \in {NoFile, [exists |-> TRUE, ver |-> 0, chunks |-> FileChunks]}
    /\ stCommitted = (IF stFile.exists THEN 0 ELSE -1)
    /\ stSave = [pc |-> "idle", ver |-> 0]
    /\ stLoad = NotLoading
    /\ rwWindow = 0
    /\ rwValues = <<>>
    /\ rwInputs = <<>>
    /\ nmConfig = NoNormConfig
    /\ nmValues = <<>>
    /\ nmResult = NoNormResult
    /\ fnArgs = NoArgs
    /\ fnResult = NoCall

ClsNext == Classify

ScNext ==
    \/ \E w \in HistoryWindows, h \in InitialHistories : Construct(w, h)
    \/ \E f \in ScoreFeatureMaps : Calculate(f)
    \/ \E raw \in HistoricalScores : AddHistoricalScore(raw)

CaNext == \E f \in CalculateFeatureMaps : Calculate(f)

CcNext == CalculateComponents

DsNext == ComputeDistributionStats

BlNext == ComputeBaseline

DrNext == CheckBaselineDrift

RqNext == RequestEnter \/ AcquireToken \/ SendRequest \/ Wake

PlNext ==
    \/ \E tickers \in Batches : StartBatch(tickers)
    \/ \E obs \in Observations : RunNext(obs)

StNext ==
    \/ SaveOpen
    \/ SaveWrite
    \/ SaveClose
    \/ LoadCheck
    \/ LoadRead

RwNext ==
    \/ \E value \in RollingInputs : RwAdd(value)
    \/ \E batch \in RollingBatches : RwAddBatch(batch)

NmNext ==
    \/ \E value \in NormRawValues \ {Absent} : NmLoadHistory(value)
    \/ \E value \in NormRawValues, require_history \in BOOLEAN :
            Normalize(value, require_history)

PctNext == PercentileRank

\* one DistributionStats and the values its percentile_rank is asked for
InitPercentile ==
    /\ clsFeatures = [k \in ClsKeys |-> Absent]
    /\ clsResult = NoResult
    /\ clsTopDrivers = <<>>
    /\ scoreWeights = SCORE_WEIGHTS
    /\ engState = "none"
    /\ history_window = 0
    /\ score_history = <<>>
    /\ recorded = <<>>
    /\ lastScore = NoScore
    /\ calls = 0
    /\ plStorage = [t \in Tickers |-> NullBaseline]
    /\ plBaselines = [t \in Tickers |-> NullBaseline]
    /\ require_baseline = FALSE
    /\ plQueue = <<>>
    /\ plResults = <<>>
    /\ plScoreHistory = <<>>
    /\ plScoreOwner = <<>>
    /\ plRuns = 0
    /\ stFile = NoFile
    /\ stCommitted = -1
    /\ stSave = [pc |-> "idle", ver |-> 0]
    /\ stLoad = NotLoading
    /\ rwWindow = 0
    /\ rwValues = <<>>
    /\ rwInputs = <<>>
    /\ nmConfig = NoNormConfig
    /\ nmValues = <<>>
    /\ nmResult = NoNormResult
    /\ fnArgs \in PercentileArgs
    /\ fnResult = NoCall

ZsNext == Zscore

\* the arguments of one z-score computation
InitZscore ==
    /\ clsFeatures = [k \in ClsKeys |-> Absent]
    /\ clsResult = NoResult
    /\ clsTopDrivers = <<>>
    /\ scoreWeights = SCORE_WEIGHTS
    /\ engState = "none"
    /\ history_window = 0
    /\ score_history = <<>>
    /\ recorded = <<>>
    /\ lastScore = NoScore
    /\ calls = 0
    /\ plStorage = [t \in Tickers |-> NullBaseline]
    /\ plBaselines = [t \in Tickers |-> NullBaseline]
    /\ require_baseline = FALSE
    /\ plQueue = <<>>
    /\ plResults = <<>>
    /\ plScoreHistory = <<>>
    /\ plScoreOwner = <<>>
    /\ plRuns = 0
    /\ stFile = NoFile
    /\ stCommitted = -1
    /\ stSave = [pc |-> "idle", ver |-> 0]
    /\ stLoad = NotLoading
    /\ rwWindow = 0
    /\ rwValues = <<>>
    /\ rwInputs = <<>>
    /\ nmConfig = NoNormConfig
    /\ nmValues = <<>>
    /\ nmResult = NoNormResult
    /\ fnArgs \in ZscoreArgs
    /\ fnResult = NoCall

InNext == ValidateInstrumentType

\* a ticker about to be validated against a baseline's instrument type
InitInstrument ==
    /\ clsFeatures = [k \in ClsKeys |-> Absent]
    /\ clsResult = NoResult
    /\ clsTopDrivers = <<>>
    /\ scoreWeights = SCORE_WEIGHTS
    /\ engState = "none"
    /\ history_window = 0
    /\ score_history = <<>>
    /\ recorded = <<>>
    /\ lastScore = NoScore
    /\ calls = 0
    /\ plStorage = [t \in Tickers |-> NullBaseline]
    /\ plBaselines = [t \in Tickers |-> NullBaseline]
    /\ require_baseline = FALSE
    /\ plQueue = <<>>
    /\ plResults = <<>>
    /\ plScoreHistory = <<>>
    /\ plScoreOwner = <<>>
    /\ plRuns = 0
    /\ stFile = NoFile
    /\ stCommitted = -1
    /\ stSave = [pc |-> "idle", ver |-> 0]
    /\ stLoad = NotLoading
    /\ rwWindow = 0
    /\ rwValues = <<>>
    /\ rwInputs = <<>>
    /\ nmConfig = NoNormConfig
    /\ nmValues = <<>>
    /\ nmResult = NoNormResult
    /\ fnArgs \in InstrumentArgs
    /\ fnResult = NoCall

GrNext == ValidateGreeksSignConvention

\* a map of raw Greeks and the source it came from
InitGreeks ==
    /\ clsFeatures = [k \in ClsKeys |-> Absent]
    /\ clsResult = NoResult
    /\ clsTopDrivers = <<>>
    /\ scoreWeights = SCORE_WEIGHTS
    /\ engState = "none"
    /\ history_window = 0
    /\ score_history = <<>>
    /\ recorded = <<>>
    /\ lastScore = NoScore
    /\ calls = 0
    /\ plStorage = [t \in Tickers |-> NullBaseline]
    /\ plBaselines = [t \in Tickers |-> NullBaseline]
    /\ require_baseline = FALSE
    /\ plQueue = <<>>
    /\ plResults = <<>>
    /\ plScoreHistory = <<>>
    /\ plScoreOwner = <<>>
    /\ plRuns = 0
    /\ stFile = NoFile
    /\ stCommitted = -1
    /\ stSave = [pc |-> "idle", ver |-> 0]
    /\ stLoad = NotLoading
    /\ rwWindow = 0
    /\ rwValues = <<>>
    /\ rwInputs = <<>>
    /\ nmConfig = NoNormConfig
    /\ nmValues = <<>>
    /\ nmResult = NoNormResult
    /\ fnArgs \in GreeksArgs
    /\ fnResult = NoCall

CoNext == ValidateDataCompleteness

\* a feature dict handed to validate_data_completeness
InitCompleteness ==
    /\ clsFeatures = [k \in ClsKeys |-> Absent]
    /\ clsResult = NoResult
    /\ clsTopDrivers = <<>>
    /\ scoreWeights = SCORE_WEIGHTS
    /\ engState = "none"
    /\ history_window = 0
    /\ score_history = <<>>
    /\ recorded = <<>>
    /\ lastScore = NoScore
    /\ calls = 0
    /\ plStorage = [t \in Tickers |-> NullBaseline]
    /\ plBaselines = [t \in Tickers |-> NullBaseline]
    /\ require_baseline = FALSE
    /\ plQueue = <<>>
    /\ plResults = <<>>
    /\ plScoreHistory = <<>>
    /\ plScoreOwner = <<>>
    /\ plRuns = 0
    /\ stFile = NoFile
    /\ stCommitted = -1
    /\ stSave = [pc |-> "idle", ver |-> 0]
    /\ stLoad = NotLoading
    /\ rwWindow = 0
    /\ rwValues = <<>>
    /\ rwInputs = <<>>
    /\ nmConfig = NoNormConfig
    /\ nmValues = <<>>
    /\ nmResult = NoNormResult
    /\ fnArgs \in CompletenessArgs
    /\ fnResult = NoCall

RtNext ==
    \/ SerializeDeserialize
    \/ SaveLoad

\* a TickerBaseline in memory, nothing stored yet
InitRoundTrip ==
    /\ clsFeatures = [k \in ClsKeys |-> Absent]
    /\ clsResult = NoResult
    /\ clsTopDrivers = <<>>
    /\ scoreWeights = SCORE_WEIGHTS
    /\ engState = "none"
    /\ history_window = 0
    /\ score_history = <<>>
    /\ recorded = <<>>
    /\ lastScore = NoScore
    /\ calls = 0
    /\ plStorage = [t \in Tickers |-> NullBaseline]
    /\ plBaselines = [t \in Tickers |-> NullBaseline]
    /\ require_baseline = FALSE
    /\ plQueue = <<>>
    /\ plResults = <<>>
    /\ plScoreHistory = <<>>
    /\ plScoreOwner = <<>>
    /\ plRuns = 0
    /\ stFile = NoFile
    /\ stCommitted = -1
    /\ stSave = [pc |-> "idle", ver |-> 0]
    /\ stLoad = NotLoading
    /\ rwWindow = 0
    /\ rwValues = <<>>
    /\ rwInputs = <<>>
    /\ nmConfig = NoNormConfig
    /\ nmValues = <<>>
    /\ nmResult = NoNormResult
    /\ fnArgs \in RoundTripArgs
    /\ fnResult = NoCall

\* a classifier about to classify a map of ConfidenceFeatureMaps
InitConfidence ==
    /\ clsFeatures \in ConfidenceFeatureMaps
    /\ clsResult = NoResult
    /\ clsTopDrivers = <<>>
    /\ scoreWeights = SCORE_WEIGHTS
    /\ engState = "none"
    /\ history_window = 0
    /\ score_history = <<>>
    /\ recorded = <<>>
    /\ lastScore = NoScore
    /\ calls = 0
    /\ plStorage = [t \in Tickers |-> NullBaseline]
    /\ plBaselines = [t \in Tickers |-> NullBaseline]
    /\ require_baseline = FALSE
    /\ plQueue = <<>>
    /\ plResults = <<>>
    /\ plScoreHistory = <<>>
    /\ plScoreOwner = <<>>
    /\ plRuns = 0
    /\ stFile = NoFile
    /\ stCommitted = -1
    /\ stSave = [pc |-> "idle", ver |-> 0]
    /\ stLoad = NotLoading
    /\ rwWindow = 0
    /\ rwValues = <<>>
    /\ rwInputs = <<>>
    /\ nmConfig = NoNormConfig
    /\ nmValues = <<>>
    /\ nmResult = NoNormResult
    /\ fnArgs = NoArgs
    /\ fnResult = NoCall

\* a classifier about to classify a map of DriverFeatureMaps
InitTopDrivers ==
    /\ clsFeatures \in DriverFeatureMaps
    /\ clsResult = NoResult
    /\ clsTopDrivers = <<>>
    /\ scoreWeights = SCORE_WEIGHTS
    /\ engState = "none"
    /\ history_window = 0
    /\ score_history = <<>>
    /\ recorded = <<>>
    /\ lastScore = NoScore
    /\ calls = 0
    /\ plStorage = [t \in Tickers |-> NullBaseline]
    /\ plBaselines = [t \in Tickers |-> NullBaseline]
    /\ require_baseline = FALSE
    /\ plQueue = <<>>
    /\ plResults = <<>>
    /\ plScoreHistory = <<>>
    /\ plScoreOwner = <<>>
    /\ plRuns = 0
    /\ stFile = NoFile
    /\ stCommitted = -1
    /\ stSave = [pc |-> "idle", ver |-> 0]
    /\ stLoad = NotLoading
    /\ rwWindow = 0
    /\ rwValues = <<>>
    /\ rwInputs = <<>>
    /\ nmConfig = NoNormConfig
    /\ nmValues = <<>>
    /\ nmResult = NoNormResult
    /\ fnArgs = NoArgs
    /\ fnResult = NoCall

\* a classifier about to classify a map of BoundaryFeatureMaps
InitBoundary ==
    /\ clsFeatures \in BoundaryFeatureMaps
    /\ clsResult = NoResult
    /\ clsTopDrivers = <<>>
    /\ scoreWeights = SCORE_WEIGHTS
    /\ engState = "none"
    /\ history_window = 0
    /\ score_history = <<>>
    /\ recorded = <<>>
    /\ lastScore = NoScore
    /\ calls = 0
    /\ plStorage = [t \in Tickers |-> NullBaseline]
    /\ plBaselines = [t \in Tickers |-> NullBaseline]
    /\ require_baseline = FALSE
    /\ plQueue = <<>>
    /\ plResults = <<>>
    /\ plScoreHistory = <<>>
    /\ plScoreOwner = <<>>
    /\ plRuns = 0
    /\ stFile = NoFile
    /\ stCommitted = -1
    /\ stSave = [pc |-> "idle", ver |-> 0]
    /\ stLoad = NotLoading
    /\ rwWindow = 0
    /\ rwValues = <<>>
    /\ rwInputs = <<>>
    /\ nmConfig = NoNormConfig
    /\ nmValues = <<>>
    /\ nmResult = NoNormResult
    /\ fnArgs = NoArgs
    /\ fnResult = NoCall

\* a map of normalized features handed to calculate
InitComponents ==
    /\ clsFeatures = [k \in ClsKeys |-> Absent]
    /\ clsResult = NoResult
    /\ clsTopDrivers = <<>>
    /\ scoreWeights = SCORE_WEIGHTS
    /\ engState = "none"
    /\ history_window = 0
    /\ score_history = <<>>
    /\ recorded = <<>>
    /\ lastScore = NoScore
    /\ calls = 0
    /\ plStorage = [t \in Tickers |-> NullBaseline]
    /\ plBaselines = [t \in Tickers |-> NullBaseline]
    /\ require_baseline = FALSE
    /\ plQueue = <<>>
    /\ plResults = <<>>
    /\ plScoreHistory = <<>>
    /\ plScoreOwner = <<>>
    /\ plRuns = 0
    /\ stFile = NoFile
    /\ stCommitted = -1
    /\ stSave = [pc |-> "idle", ver |-> 0]
    /\ stLoad = NotLoading
    /\ rwWindow = 0
    /\ rwValues = <<>>
    /\ rwInputs = <<>>
    /\ nmConfig = NoNormConfig
    /\ nmValues = <<>>
    /\ nmResult = NoNormResult
    /\ fnArgs \in ComponentArgs
    /\ fnResult = NoCall

\* a list of samples handed to compute_distribution_stats
InitDistribution ==
    /\ clsFeatures = [k \in ClsKeys |-> Absent]
    /\ clsResult = NoResult
    /\ clsTopDrivers = <<>>
    /\ scoreWeights = SCORE_WEIGHTS
    /\ engState = "none"
    /\ history_window = 0
    /\ score_history = <<>>
    /\ recorded = <<>>
    /\ lastScore = NoScore
    /\ calls = 0
    /\ plStorage = [t \in Tickers |-> NullBaseline]
    /\ plBaselines = [t \in Tickers |-> NullBaseline]
    /\ require_baseline = FALSE
    /\ plQueue = <<>>
    /\ plResults = <<>>
    /\ plScoreHistory = <<>>
    /\ plScoreOwner = <<>>
    /\ plRuns = 0
    /\ stFile = NoFile
    /\ stCommitted = -1
    /\ stSave = [pc |-> "idle", ver |-> 0]
    /\ stLoad = NotLoading
    /\ rwWindow = 0
    /\ rwValues = <<>>
    /\ rwInputs = <<>>
    /\ nmConfig = NoNormConfig
    /\ nmValues = <<>>
    /\ nmResult = NoNormResult
    /\ fnArgs \in DistributionArgs
    /\ fnResult = NoCall

\* a historical frame handed to compute_baseline
InitBaseline ==
    /\ clsFeatures = [k \in ClsKeys |-> Absent]
    /\ clsResult = NoResult
    /\ clsTopDrivers = <<>>
    /\ scoreWeights = SCORE_WEIGHTS
    /\ engState = "none"
    /\ history_window = 0
    /\ score_history = <<>>
    /\ recorded = <<>>
    /\ lastScore = NoScore
    /\ calls = 0
    /\ plStorage = [t \in Tickers |-> NullBaseline]
    /\ plBaselines = [t \in Tickers |-> NullBaseline]
    /\ require_baseline = FALSE
    /\ plQueue = <<>>
    /\ plResults = <<>>
    /\ plScoreHistory = <<>>
    /\ plScoreOwner = <<>>
    /\ plRuns = 0
    /\ stFile = NoFile
    /\ stCommitted = -1
    /\ stSave = [pc |-> "idle", ver |-> 0]
    /\ stLoad = NotLoading
    /\ rwWindow = 0
    /\ rwValues = <<>>
    /\ rwInputs = <<>>
    /\ nmConfig = NoNormConfig
    /\ nmValues = <<>>
    /\ nmResult = NoNormResult
    /\ fnArgs \in BaselineArgs
    /\ fnResult = NoCall

\* two serialized baselines handed to check_baseline_drift
InitDrift ==
    /\ clsFeatures = [k \in ClsKeys |-> Absent]
    /\ clsResult = NoResult
    /\ clsTopDrivers = <<>>
    /\ scoreWeights = SCORE_WEIGHTS
    /\ engState = "none"
    /\ history_window = 0
    /\ score_history = <<>>
    /\ recorded = <<>>
    /\ lastScore = NoScore
    /\ calls = 0
    /\ plStorage = [t \in Tickers |-> NullBaseline]
    /\ plBaselines = [t \in Tickers |-> NullBaseline]
    /\ require_baseline = FALSE
    /\ plQueue = <<>>
    /\ plResults = <<>>
    /\ plScoreHistory = <<>>
    /\ plScoreOwner = <<>>
    /\ plRuns = 0
    /\ stFile = NoFile
    /\ stCommitted = -1
    /\ stSave = [pc |-> "idle", ver |-> 0]
    /\ stLoad = NotLoading
    /\ rwWindow = 0
    /\ rwValues = <<>>
    /\ rwInputs = <<>>
    /\ nmConfig = NoNormConfig
    /\ nmValues = <<>>
    /\ nmResult = NoNormResult
    /\ fnArgs \in DriftArgs
    /\ fnResult = NoCall

\* a client and the arguments of one _request call
InitRequest ==
    /\ clsFeatures = [k \in ClsKeys |-> Absent]
    /\ clsResult = NoResult
    /\ clsTopDrivers = <<>>
    /\ scoreWeights = SCORE_WEIGHTS
    /\ engState = "none"
    /\ history_window = 0
    /\ score_history = <<>>
    /\ recorded = <<>>
    /\ lastScore = NoScore
    /\ calls = 0
    /\ plStorage = [t \in Tickers |-> NullBaseline]
    /\ plBaselines = [t \in Tickers |-> NullBaseline]
    /\ require_baseline = FALSE
    /\ plQueue = <<>>
    /\ plResults = <<>>
    /\ plScoreHistory = <<>>
    /\ plScoreOwner = <<>>
    /\ plRuns = 0
    /\ stFile = NoFile
    /\ stCommitted = -1
    /\ stSave = [pc |-> "idle", ver |-> 0]
    /\ stLoad = NotLoading
    /\ rwWindow = 0
    /\ rwValues = <<>>
    /\ rwInputs = <<>>
    /\ nmConfig = NoNormConfig
    /\ nmValues = <<>>
    /\ nmResult = NoNormResult
    /\ fnArgs \in RequestArgs
    /\ fnResult = NoCall

\* a NormalizationPipeline after __init__: empty rolling buffers
InitNormalize ==
    /\ clsFeatures = [k \in ClsKeys |-> Absent]
    /\ clsResult = NoResult
    /\ clsTopDrivers = <<>>
    /\ scoreWeights = SCORE_WEIGHTS
    /\ engState = "none"
    /\ history_window = 0
    /\ score_history = <<>>
    /\ recorded = <<>>
    /\ lastScore = NoScore
    /\ calls = 0
    /\ plStorage = [t \in Tickers |-> NullBaseline]
    /\ plBaselines = [t \in Tickers |-> NullBaseline]
    /\ require_baseline = FALSE
    /\ plQueue = <<>>
    /\ plResults = <<>>
    /\ plScoreHistory = <<>>
    /\ plScoreOwner = <<>>
    /\ plRuns = 0
    /\ stFile = NoFile
    /\ stCommitted = -1
    /\ stSave = [pc |-> "idle", ver |-> 0]
    /\ stLoad = NotLoading
    /\ rwWindow = 0
    /\ rwValues = <<>>
    /\ rwInputs = <<>>
    /\ nmConfig \in NormConfigs
    /\ nmValues = <<>>
    /\ nmResult = NoNormResult
    /\ fnArgs = NoArgs
    /\ fnResult = NoCall

\* a RollingWindowCalculator after __init__: an empty deque of capacity W
InitRolling ==
    /\ clsFeatures = [k \in ClsKeys |-> Absent]
    /\ clsResult = NoResult
    /\ clsTopDrivers = <<>>
    /\ scoreWeights = SCORE_WEIGHTS
    /\ engState = "none"
    /\ history_window = 0
    /\ score_history = <<>>
    /\ recorded = <<>>
    /\ lastScore = NoScore
    /\ calls = 0
    /\ plStorage = [t \in Tickers |-> NullBaseline]
    /\ plBaselines = [t \in Tickers |-> NullBaseline]
    /\ require_baseline = FALSE
    /\ plQueue = <<>>
    /\ plResults = <<>>
    /\ plScoreHistory = <<>>
    /\ plScoreOwner = <<>>
    /\ plRuns = 0
    /\ stFile = NoFile
    /\ stCommitted = -1
    /\ stSave = [pc |-> "idle", ver |-> 0]
    /\ stLoad = NotLoading
    /\ rwWindow \in RollingWindows
    /\ rwValues = <<>>
    /\ rwInputs = <<>>
    /\ nmConfig = NoNormConfig
    /\ nmValues = <<>>
    /\ nmResult = NoNormResult
    /\ fnArgs = NoArgs
    /\ fnResult = NoCall

SpecClassifier == InitClassifier /\ [][ClsNext]_vars

SpecScorer == InitScorer /\ [][ScNext]_vars

SpecPipeline == InitPipeline /\ [][PlNext]_vars

SpecStorage == InitStorage /\ [][StNext]_vars

SpecRolling == InitRolling /\ [][RwNext]_vars

SpecNormalize == InitNormalize /\ [][NmNext]_vars

SpecPercentile == InitPercentile /\ [][PctNext]_vars

SpecZscore == InitZscore /\ [][ZsNext]_vars

SpecInstrument == InitInstrument /\ [][InNext]_vars

SpecGreeks == InitGreeks /\ [][GrNext]_vars

SpecCompleteness == InitCompleteness /\ [][CoNext]_vars

SpecRoundTrip == InitRoundTrip /\ [][RtNext]_vars

SpecConfidence == InitConfidence /\ [][ClsNext]_vars

SpecTopDrivers == InitTopDrivers /\ [][ClsNext]_vars

SpecCalculate == InitCalculate /\ [][CaNext]_vars

SpecBoundary == InitBoundary /\ [][ClsNext]_vars

SpecComponents == InitComponents /\ [][CcNext]_vars

SpecDistribution == InitDistribution /\ [][DsNext]_vars

SpecBaseline == InitBaseline /\ [][BlNext]_vars

SpecDrift == InitDrift /\ [][DrNext]_vars

\* the event loop resumes the coroutine whenever the awaited token, response
\* (or its timeout) or sleep is due
SpecRequest == InitRequest /\ [][RqNext]_vars /\ WF_vars(RqNext)

----------------------------------------------------------------------------
(* Properties of the regime classifier (SpecClassifier) *)

Classified == clsResult # NoResult

BothRequiredPresent ==
    /\ ~IsMissing(clsFeatures["gex_zscore"])
    /\ ~IsMissing(clsFeatures["dex_zscore"])

\* C1: for every feature map (any keys present, numeric or NaN values)
\* classify returns one result, and its label is one of the seven labels.
C1_ClassifyTotal == Classified => clsResult.label \in RegimeLabel

C1_Witness ==
    /\ Classified
    /\ clsFeatures["price_change_pct"] = NaN
    /\ clsFeatures["dark_pool_ratio_pct"] = NaN
    /\ clsResult.label = "NEUTRAL"

\* C2: the label is UNDETERMINED, with confidence 0.0, exactly when gex_zscore
\* or dex_zscore is absent or NaN, whatever the other features are.
C2_UndeterminedIffMissing ==
    Classified =>
        /\ (clsResult.label = "UNDETERMINED") <=> ~BothRequiredPresent
        /\ ~BothRequiredPresent => clsResult.confidence = 0
        /\ BothRequiredPresent => clsResult.confidence > 0

C2_Witness ==
    /\ Classified
    /\ IsNum(clsFeatures["gex_zscore"])
    /\ clsFeatures["dex_zscore"] = NaN
    /\ _check_dark_dominant(clsFeatures)
    /\ clsResult.label = "UNDETERMINED"
    /\ clsResult.confidence = 0

\* the order in which classify is to try the rules
RuleOrder ==
    <<"GAMMA_POSITIVE_CONTROL", "GAMMA_NEGATIVE_VACUUM",
      "DARK_DOMINANT_ACCUMULATION", "ABSORPTION_LIKE", "DISTRIBUTION_LIKE">>

\* C3: with both required features present the label is that of the earliest
\* rule of the fixed order whose predicate holds, and NEUTRAL if none holds.
C3_FirstMatchWins ==
    (Classified /\ BothRequiredPresent) =>
        LET matching == {i \in 1..Len(RuleOrder) : RuleCheck(RuleOrder[i], clsFeatures)}
        IN  IF matching = {}
            THEN clsResult.label = "NEUTRAL"
            ELSE \E i \in matching :
                    /\ \A j \in matching : i <= j
                    /\ clsResult.label = RuleOrder[i]

C3_Witness ==
    /\ Classified
    /\ clsFeatures["gex_zscore"] = Num(-250)
    /\ clsFeatures["dex_zscore"] = Num(0)
    /\ clsFeatures["dark_pool_ratio_pct"] = Num(80)
    /\ clsFeatures["block_trade_count_zscore"] = Num(200)
    /\ clsFeatures["impact_per_vol_pct"] = Num(70)
    /\ clsFeatures["price_change_pct"] = Num(0)
    /\ _check_dark_dominant(clsFeatures)
    /\ clsResult.label = "GAMMA_NEGATIVE_VACUUM"

\* C4: a rule that refers to an absent feature does not match: without
\* dark_pool_ratio_pct and dark_pool_ratio the label is never
\* GAMMA_POSITIVE_CONTROL, and without price_change_pct it is never
\* ABSORPTION_LIKE or DISTRIBUTION_LIKE.
C4_AbsentFeatureNeverMatches ==
    Classified =>
        /\ (clsFeatures["dark_pool_ratio_pct"] = Absent
                /\ clsFeatures["dark_pool_ratio"] = Absent)
            => clsResult.label # "GAMMA_POSITIVE_CONTROL"
        /\ clsFeatures["price_change_pct"] = Absent
            => clsResult.label \notin {"ABSORPTION_LIKE", "DISTRIBUTION_LIKE"}

----------------------------------------------------------------------------
(* Properties of the daily pipeline (SpecPipeline) *)

\* C5: an observation whose data completeness is INSUFFICIENT gets the regime
\* UNDETERMINED from the pipeline.
C5_InsufficientBlocksRegime ==
    \A i \in 1..Len(plResults) :
        plResults[i].completeness = "INSUFFICIENT"
            => plResults[i].regime.label = "UNDETERMINED"

\* C6: the score history an instrument is calibrated against holds only raw
\* scores of that instrument.
C6_HistoryOwnedPerInstrument ==
    plResults # <<>> =>
        \A i \in 1..Len(plScoreOwner) :
            plScoreOwner[i] = plResults[Len(plResults)].ticker

----------------------------------------------------------------------------
(* Properties of the baseline storage (SpecStorage) *)

\* C7: a load of a ticker whose baseline had been saved before returns a
\* complete baseline, the previous one or a newer one, never None.
C7_LoadNeverSeesPartialFile ==
    (stLoad.pc = "done" /\ stLoad.prev >= 0) =>
        /\ stLoad.result.kind = "baseline"
        /\ stLoad.result.ver >= stLoad.prev

----------------------------------------------------------------------------
(* Properties of the unusualness scorer (SpecScorer) *)

\* C8: every result of calculate has a score between 0 and 100.
C8_ScoreInRange ==
    lastScore # NoScore => (0 <= lastScore.score /\ lastScore.score <= 1000)

C8_Witness ==
    /\ lastScore # NoScore
    /\ Len(score_history) >= 10
    /\ lastScore.score = 1000

\* C9: after any call the history holds at most history_window entries, the
\* most recently recorded raw scores in insertion order.
C9_HistoryBoundedFifo ==
    calls >= 1 =>
        LET n == Min(history_window, Len(recorded))
        IN  /\ Len(score_history) <= history_window
            /\ score_history = SubSeq(recorded, Len(recorded) - n + 1, Len(recorded))

\* C10: an engine exists, and scores, only if the component weights sum to 1.0
\* within 0.001; with any other sum construction fails.
C10_ConstructionChecksWeights ==
    LET off == Abs(SumSeq(scoreWeights) - 1000)
    IN  /\ engState = "ready" => off <= 1
        /\ lastScore # NoScore => off <= 1
        /\ (engState # "none" /\ off > 1) => engState = "error"

C10_Witness ==
    /\ engState = "error"
    /\ SumSeq(scoreWeights) = 900
    /\ lastScore = NoScore

----------------------------------------------------------------------------
(* Properties of the rolling window (SpecRolling) *)

\* C11: the buffer holds exactly the last min(W, k) of the k non-NaN values
\* added so far, in insertion order, hence never more than W values, and a
\* NaN changes neither its contents nor its count.
C11_RollingWindowFifo ==
    LET added == SelectSeq(rwInputs, IsNum)
        k == Len(added)
        n == Min(rwWindow, k)
    IN  /\ Len(rwValues) <= rwWindow
        /\ rwValues = SubSeq(added, k - n + 1, k)

C11_Witness ==
    /\ rwWindow = 2
    /\ rwInputs = <<Num(1), NaN, Num(2), Num(1)>>
    /\ rwValues = <<Num(2), Num(1)>>

----------------------------------------------------------------------------
(* Properties of the normalization pipeline (SpecNormalize) *)

\* the rolling fallback of the policy: rolling statistics of a ready buffer
RollingNormalizeWhenReady(config, values, value) ==
    LET stats == compute_stats(values)
    IN  IF ~is_ready(values, config.min_observations)
        THEN Absent
        ELSE Num(zscore_normalize(100 * value, stats.mean, stats.std, 300))

\* C12: a feature present in the observation is normalized against the
\* baseline distribution if the baseline maps one, else against the rolling
\* statistics if the rolling buffer is ready, and else has no entry in the
\* normalized output.
C12_NormalizePolicy ==
    (nmResult.status # "none" /\ nmResult.value # Absent) =>
        IF nmConfig.baseline.mapped
        THEN /\ nmResult.status = "ok"
             /\ nmResult.out = Num(zscore_normalize(nmResult.value.v,
                                       nmConfig.baseline.mean,
                                       nmConfig.baseline.std, 300))
        ELSE IF nmResult.ready
             THEN /\ nmResult.status = "ok"
                  /\ nmResult.out = RollingNormalizeWhenReady(nmConfig, nmValues,
                                                              nmResult.value.v)
             ELSE nmResult.out = Absent

----------------------------------------------------------------------------
(* Properties of DistributionStats.percentile_rank (SpecPercentile) *)

\* results lie in [0, 100] and do not decrease with the argument
PercentileInRangeAndMonotonic ==
    /\ 0 <= fnResult.r1 /\ fnResult.r1 <= 100000
    /\ fnArgs.v1 <= fnArgs.v2 => fnResult.r1 <= fnResult.r2

\* C13 as stated: for every distribution, min_val = max_val included,
\* percentile_rank(min_val) = 0 and percentile_rank(max_val) = 100, every
\* result lies in [0, 100], and the rank is non-decreasing.
C13_PercentileRankEndpoints ==
    fnResult.done =>
        /\ fnResult.at_min = 0
        /\ fnResult.at_max = 100000
        /\ PercentileInRangeAndMonotonic

\* C13 amended: percentile_rank(min_val) = 0; percentile_rank(max_val) = 100
\* when min_val < max_val, and 0 when min_val = max_val (the two are then the
\* same argument); every result lies in [0, 100]; the rank is non-decreasing.
C13_PercentileRankAmended ==
    fnResult.done =>
        /\ fnResult.at_min = 0
        /\ fnArgs.stats.min_val < fnArgs.stats.max_val => fnResult.at_max = 100000
        /\ fnArgs.stats.min_val = fnArgs.stats.max_val => fnResult.at_max = 0
        /\ PercentileInRangeAndMonotonic

C13_Witness ==
    /\ fnResult.done
    /\ fnArgs.stats = [min_val |-> 0, median |-> 0, max_val |-> 3]
    /\ fnArgs.v1 = 0 /\ fnArgs.v2 = 1
    /\ fnResult.r1 = 0 /\ fnResult.r2 > 50000
    /\ fnResult.at_max = 100000

----------------------------------------------------------------------------
(* Properties of the z-score functions (SpecZscore) *)

\* z (hundredths, rounded down) is the quotient (value - mean) / std
IsQuotient(z, value, mean, std) ==
    /\ z * std <= (value - mean) * 100
    /\ (value - mean) * 100 < (z + 1) * std

\* C14: with std = 0 both z-scores are 0 for every value; with std > 0 both
\* are (value - mean) / std, 0 at the mean and 1 at mean + std, and
\* zscore_normalize is that quotient clipped to [-clip_std, clip_std] unless
\* clip_std is None.
C14_ZscoreZeroSpread ==
    fnResult.done =>
        LET clip(z) == IF fnArgs.clip_std = NoClip
                       THEN z
                       ELSE Max(-fnArgs.clip_std, Min(fnArgs.clip_std, z))
        IN  /\ fnArgs.std = 0 =>
                /\ fnResult.normalized = 0
                /\ fnResult.zscore = 0
            /\ fnArgs.std > 0 =>
                /\ IsQuotient(fnResult.zscore, fnArgs.value, fnArgs.mean, fnArgs.std)
                /\ fnResult.normalized = clip(fnResult.zscore)
                /\ fnResult.zscore_at_mean = 0
                /\ fnResult.normalized_at_mean = 0
                /\ fnResult.zscore_at_std = 100
                /\ fnResult.normalized_at_std = clip(100)
            /\ fnArgs.clip_std # NoClip =>
                /\ -fnArgs.clip_std <= fnResult.normalized
                /\ fnResult.normalized <= fnArgs.clip_std

C14_Witness ==
    /\ fnResult.done
    /\ fnArgs.std = 2 /\ fnArgs.mean = 0 /\ fnArgs.value = 8
    /\ fnArgs.clip_std = 300
    /\ fnResult.zscore = 400
    /\ fnResult.normalized = 300

----------------------------------------------------------------------------
(* Properties of validate_instrument_type (SpecInstrument) *)

\* C15: a ticker whose type differs from the baseline's locked type is a hard
\* failure: an ERROR-severity violation is raised and the call does not
\* return normally; with equal types, or no baseline type, there is no
\* violation.
C15_TypeMismatchIsHardFailure ==
    fnResult.done =>
        LET mismatch ==
                /\ fnArgs.baseline_instrument_type # "None"
                /\ from_ticker(fnArgs.ticker) # fnArgs.baseline_instrument_type
        IN  /\ mismatch =>
                /\ fnResult.call.violation.present
                /\ fnResult.call.violation.severity = "error"
                /\ fnResult.call.outcome = "raise"
            /\ ~mismatch =>
                /\ ~fnResult.call.violation.present
                /\ fnResult.call.outcome = "return"

----------------------------------------------------------------------------
(* Properties of the Greek sign normalization (SpecGreeks) *)

KnownGreeks == {"gex", "dex", "vanna", "charm"}

\* C16: a Greek name outside the four known ones, or a source without a
\* multiplier table, is a hard failure: an error is raised, the value is not
\* returned and not dropped; otherwise each known Greek comes back multiplied
\* by the source's multiplier.
C16_UnknownGreekIsHardFailure ==
    fnResult.done =>
        LET present == {k \in GreekInputKeys : fnArgs.greeks[k] # Absent}
            unknown ==
                \/ \E k \in present : k \notin KnownGreeks
                \/ present # {} /\ fnArgs.source \notin GreeksSource
        IN  /\ \A k \in present :
                (k \notin KnownGreeks \/ fnArgs.source \notin GreeksSource)
                    => fnResult.direct[k].outcome = "raise"
            /\ unknown => fnResult.call.outcome = "raise"
            /\ ~unknown =>
                /\ fnResult.call.outcome = "return"
                /\ \A k \in GreekInputKeys :
                     fnResult.call.normalized[k] =
                        IF k \in present
                        THEN Num(fnArgs.greeks[k].v
                                   * SIGN_CONVENTION_MULTIPLIERS[fnArgs.source][k])
                        ELSE Absent

----------------------------------------------------------------------------
(* Properties of the completeness validator (SpecCompleteness) *)

MinimalSet == {"gex", "dex", "dark_pool_ratio"}

SecondarySet == {"block_trade_count", "price_change_pct"}

SeqRange(q) == {q[i] : i \in 1..Len(q)}

----------------------------------------------------------------------------
(* Properties of baseline serialization (SpecRoundTrip) *)

\* C18: deserializing the serialized form of a baseline gives a baseline equal
\* to it field for field, None distributions included, and so does save
\* followed by load of the same ticker.
C18_SerializeRoundTrip ==
    fnResult.done /\ fnArgs.fn = "round_trip" =>
        /\ fnResult.baseline = fnArgs.baseline
        /\ \A k \in DOMAIN fnArgs.baseline :
               fnResult.baseline[k] = fnArgs.baseline[k]

\* a baseline with None for vanna and dark_volume, a charm distribution and a
\* non-default schema version came back from the file
C18_Witness ==
    /\ fnResult.done
    /\ fnArgs.fn = "round_trip"
    /\ fnResult.via = "file"
    /\ fnArgs.baseline.greeks.vanna = None
    /\ fnArgs.baseline.dark_pool.dark_volume = None
    /\ fnArgs.baseline.greeks.charm # None
    /\ fnArgs.baseline.schema_version = "1.1"
    /\ fnResult.baseline.greeks.vanna = None
    /\ fnResult.baseline.greeks.charm = fnArgs.baseline.greeks.charm

----------------------------------------------------------------------------
(* Properties of the confidence (SpecConfidence) *)

\* the margin of a rule regime as a fraction num/den, and its scale in 1/10000
ConfidenceMargin(label, f) ==
    CASE label = "GAMMA_POSITIVE_CONTROL" ->
            [num |-> f.gex_zscore.v - 150, den |-> 150, scale |-> 3000,
             key |-> "gex_zscore", sign |-> 1]
      [] label = "GAMMA_NEGATIVE_VACUUM" ->
            [num |-> -f.gex_zscore.v - 150, den |-> 150, scale |-> 3000,
             key |-> "gex_zscore", sign |-> -1]
      [] label = "DARK_DOMINANT_ACCUMULATION" ->
            [num |-> (IF f.dark_pool_ratio_pct = Absent
                      THEN f.dark_pool_ratio.v ELSE f.dark_pool_ratio_pct.v) - 70,
             den |-> 30, scale |-> 3000,
             key |-> (IF f.dark_pool_ratio_pct = Absent
                      THEN "dark_pool_ratio" ELSE "dark_pool_ratio_pct"),
             sign |-> 1]
      [] label = "ABSORPTION_LIKE" ->
            [num |-> -f.dex_zscore.v - 100, den |-> 100, scale |-> 2500,
             key |-> "dex_zscore", sign |-> -1]
      [] label = "DISTRIBUTION_LIKE" ->
            [num |-> f.dex_zscore.v - 100, den |-> 100, scale |-> 2500,
             key |-> "dex_zscore", sign |-> 1]

\* steps by which the triggering metric moves further past its threshold
MarginSteps == {0, 1, 50, 300, 1000}

\* C19: the confidence is 0.0 for UNDETERMINED, 0.5 for NEUTRAL and, for a
\* rule regime, 0.5 plus scale times the margin of the triggering metric
\* (scale 0.3, or 0.25 for absorption and distribution) clamped to [0.5, 1.0];
\* it does not decrease when the margin grows.
C19_ConfidenceTiedToLabel ==
    clsResult # NoResult =>
        /\ clsResult.label \in RegimeLabel
        /\ clsResult.label = "UNDETERMINED" => clsResult.confidence = 0
        /\ clsResult.label = "NEUTRAL" => clsResult.confidence = 5000
        /\ clsResult.label \notin {"UNDETERMINED", "NEUTRAL"} =>
            LET m == ConfidenceMargin(clsResult.label, clsFeatures)
                c == clsResult.confidence
                unclamped == 5000 * m.den + m.num * m.scale
            IN  /\ c >= 5000 /\ c <= 10000
                /\ m.num > 0
                /\ unclamped >= 10000 * m.den => c = 10000
                /\ unclamped < 10000 * m.den =>
                      c * m.den <= unclamped /\ unclamped < (c + 1) * m.den
                /\ \A step \in MarginSteps :
                      _calculate_confidence(
                          clsResult.label,
                          [clsFeatures EXCEPT
                              ![m.key] = Num(@.v + m.sign * step)]) >= c

\* a distribution regime so far past the threshold that the confidence is 1.0
C19_Witness ==
    /\ clsResult.label = "DISTRIBUTION_LIKE"
    /\ clsFeatures.dex_zscore = Num(500)
    /\ clsResult.confidence = 10000

----------------------------------------------------------------------------
(* Properties of the top drivers (SpecTopDrivers) *)

\* the non-NaN features of the input whose key ends in _zscore
ZscoreFeatures(f) ==
    {k \in DOMAIN f : EndsWithZscore(k) /\ f[k].kind = "num"}

RECURSIVE SumMagnitude(_, _)
SumMagnitude(f, keys) ==
    IF keys = {}
    THEN 0
    ELSE LET k == CHOOSE x \in keys : TRUE
         IN  Abs(f[k].v) + SumMagnitude(f, keys \ {k})

\* C20: a classified result has at most 3 top drivers, each a non-NaN _zscore
\* feature of the input, in non-increasing order of |z|, no omitted z-score
\* feature larger in |z| than an included one; contribution_pct is
\* |z| / (sum of |z| over all z-score features) * 100, direction is elevated
\* for z > 0 and depressed otherwise.
C20_TopDrivers ==
    clsResult # NoResult /\ clsResult.label # "UNDETERMINED" =>
        LET d == clsTopDrivers
            zs == ZscoreFeatures(clsFeatures)
            total == SumMagnitude(clsFeatures, zs)
            col(i) == CHOOSE k \in zs : RemoveZscoreSuffix(k) = d[i].feature
            included == {col(i) : i \in 1..Len(d)}
        IN  /\ Len(d) <= 3
            /\ \A i \in 1..Len(d) :
                 /\ \E k \in zs : RemoveZscoreSuffix(k) = d[i].feature
                 /\ d[i].zscore = clsFeatures[col(i)].v
                 /\ total > 0 =>
                      /\ d[i].contribution_pct * total <= Abs(d[i].zscore) * 10000
                      /\ Abs(d[i].zscore) * 10000 < (d[i].contribution_pct + 1) * total
                 /\ d[i].direction =
                      IF d[i].zscore > 0 THEN "elevated" ELSE "depressed"
            /\ \A i, j \in 1..Len(d) :
                 /\ i < j => Abs(d[i].zscore) >= Abs(d[j].zscore)
                 /\ i # j => d[i].feature # d[j].feature
            /\ \A k \in zs \ included :
                 /\ Len(d) = 3
                 /\ \A i \in 1..Len(d) : Abs(clsFeatures[k].v) <= Abs(d[i].zscore)

\* five z-score features, the largest in magnitude last in index order: three
\* drivers were kept and two features left out
C20_Witness ==
    /\ clsResult # NoResult
    /\ clsResult.label # "UNDETERMINED"
    /\ Cardinality(ZscoreFeatures(clsFeatures)) = 5
    /\ clsFeatures.gex_zscore = Num(200)
    /\ clsFeatures.block_trade_count_zscore = Num(-300)
    /\ Len(clsTopDrivers) = 3
    /\ clsTopDrivers[1].feature = "block_trade_count"
    /\ clsTopDrivers[1].direction = "depressed"

----------------------------------------------------------------------------
(* Properties of calculate (SpecCalculate) *)

\* C21: the level of a result is the bucket of its own score: Very Normal for
\* [0,20), Normal for [20,40), Slightly Unusual for [40,60), Unusual for
\* [60,80), Highly Unusual for [80,100]; 20, 40, 60 and 80 belong to the
\* higher bucket.
C21_LevelIsBucketOfScore ==
    lastScore # NoScore =>
        /\ lastScore.score >= 0 /\ lastScore.score <= 1000
        /\ lastScore.level = "VERY_NORMAL" <=> lastScore.score < 200
        /\ lastScore.level = "NORMAL" <=>
               (200 <= lastScore.score /\ lastScore.score < 400)
        /\ lastScore.level = "SLIGHTLY_UNUSUAL" <=>
               (400 <= lastScore.score /\ lastScore.score < 600)
        /\ lastScore.level = "UNUSUAL" <=>
               (600 <= lastScore.score /\ lastScore.score < 800)
        /\ lastScore.level = "HIGHLY_UNUSUAL" <=> 800 <= lastScore.score

\* a score of exactly 60.0 was given the level Unusual
C21_Witness ==
    /\ lastScore # NoScore
    /\ lastScore.score = 600
    /\ lastScore.level = "UNUSUAL"

----------------------------------------------------------------------------
(* Properties of the rule thresholds (SpecBoundary) *)

\* the reference decision list on numbers: z-scores in hundredths, dark pool,
\* efficiency and impact in percent, price change in hundredths of a percent
ReferenceLabel(gex_z, dex_z, dark_pool_pct, price_efficiency_pct,
               impact_per_vol_pct, block_count_z, price_change_pct) ==
    IF gex_z > 150 /\ dark_pool_pct < 60 /\ price_efficiency_pct < 50
    THEN "GAMMA_POSITIVE_CONTROL"
    ELSE IF gex_z < -150 /\ impact_per_vol_pct > 50
    THEN "GAMMA_NEGATIVE_VACUUM"
    ELSE IF dark_pool_pct > 70 /\ block_count_z > 100
    THEN "DARK_DOMINANT_ACCUMULATION"
    ELSE IF dex_z < -100 /\ price_change_pct >= -50 /\ dark_pool_pct > 50
    THEN "ABSORPTION_LIKE"
    ELSE IF dex_z > 100 /\ price_change_pct <= 50
    THEN "DISTRIBUTION_LIKE"
    ELSE "NEUTRAL"

\* C22: with gex_zscore, dex_zscore and every feature the rules read present,
\* the label of classify is that of the reference decision list, strict and
\* non-strict comparisons as listed.
C22_LabelMatchesDecisionList ==
    /\ clsResult # NoResult
    /\ \A k \in ClsKeys \ {"dark_pool_ratio"} : clsFeatures[k].kind = "num"
    => clsResult.label =
         ReferenceLabel(clsFeatures.gex_zscore.v, clsFeatures.dex_zscore.v,
                        clsFeatures.dark_pool_ratio_pct.v,
                        clsFeatures.price_efficiency_pct.v,
                        clsFeatures.impact_per_vol_pct.v,
                        clsFeatures.block_trade_count_zscore.v,
                        clsFeatures.price_change_pct.v)

\* an absorption regime found with the price change exactly at -0.5 and the
\* gamma z-score exactly at the threshold, which does not trigger the gamma rule
C22_Witness ==
    /\ clsResult.label = "ABSORPTION_LIKE"
    /\ clsFeatures.price_change_pct = Num(-50)
    /\ clsFeatures.gex_zscore = Num(150)
    /\ clsFeatures.dex_zscore = Num(-101)
    /\ clsFeatures.dark_pool_ratio_pct = Num(51)

\* C23: calculate ranks by percentile if and only if at least 10 raw scores
\* were recorded before the call: the score is then the share of those prior
\* scores strictly below the current raw score, times 100; with fewer than 10
\* prior scores it is the sigmoid fallback.
C23_PercentileIffTenPrior ==
    lastScore # NoScore =>
        LET prior == SubSeq(recorded, 1, Len(recorded) - 1)
            raw == recorded[Len(recorded)]
            below == Cardinality({i \in 1..Len(prior) : prior[i] < raw})
        IN  IF Len(prior) >= 10
            THEN lastScore.score = RoundHalfEven(below * 1000, Len(prior))
            ELSE lastScore.score = SigmoidScore(raw)

----------------------------------------------------------------------------
(* Properties of the score components (SpecComponents) *)

\* the value of a component by the three tiers; pct_key "none" for a
\* component without a percentile key
ThreeTier(f, zscore_key, pct_key) ==
    IF f[zscore_key].kind = "num"
    THEN f[zscore_key].v
    ELSE IF pct_key # "none" /\ f[pct_key].kind = "num"
         THEN ((f[pct_key].v - 50) * 100) \div 25
         ELSE 0

\* C24: each of the five components takes its z-score key if present and not
\* NaN, else its percentile key, if present and not NaN, as (pct - 50)/25,
\* else 0.0; a missing component contributes 0 and raises no error.
C24_ThreeTierFallback ==
    fnResult.done /\ fnArgs.fn = "calculate_components" =>
        LET f == fnArgs.features
            c == fnResult.components
        IN  /\ fnResult.outcome = "return"
            /\ Len(c) = 5
            /\ c[1].zscore = ThreeTier(f, "dark_pool_ratio_zscore", "dark_pool_ratio_pct")
            /\ c[2].zscore = ThreeTier(f, "gex_zscore", "none")
            /\ c[3].zscore = ThreeTier(f, "venue_shift_zscore", "none")
            /\ c[4].zscore = ThreeTier(f, "block_trade_count_zscore", "block_trade_count_pct")
            /\ c[5].zscore = ThreeTier(f, "iv_skew_zscore", "none")
            /\ \A i \in 1..5 :
                  (c[i].zscore = 0) => (c[i].contribution = 0)

\* the dark pool z-score is NaN and its percentile 100: the component is 2.0;
\* the gamma z-score is absent: its component is 0
C24_Witness ==
    /\ fnResult.done
    /\ fnArgs.fn = "calculate_components"
    /\ fnArgs.features.dark_pool_ratio_zscore = NaN
    /\ fnArgs.features.dark_pool_ratio_pct = Num(100)
    /\ fnArgs.features.gex_zscore = Absent
    /\ fnResult.components[1].zscore = 200
    /\ fnResult.components[2].zscore = 0
    /\ fnResult.components[2].contribution = 0

\* the z-score columns of the components, in component order
ComponentColumns ==
    <<"dark_pool_ratio_zscore", "gex_zscore", "venue_shift_zscore",
      "block_trade_count_zscore", "iv_skew_zscore">>

\* weights in thousandths, in component order
ComponentWeights == <<250, 250, 200, 150, 150>>

----------------------------------------------------------------------------
(* Properties of compute_distribution_stats (SpecDistribution) *)

\* the samples left after the None/NaN filter and, with remove_outliers, one
\* pass that drops the samples beyond mean +- outlier_std * std
RetainedSamples(args) ==
    LET arr == FilterValid(args.values)
    IN  IF args.remove_outliers /\ arr # <<>>
        THEN TrimOutliers(arr, args.outlier_std)
        ELSE arr

\* C26: the result is null exactly when fewer than 21 samples remain after the
\* None/NaN filter or, with remove_outliers, after one trimming pass; the
\* trimming is applied once; a non-null result has n_observations >= 21, equal
\* to the number of retained samples, and min_val <= median <= max_val.
C26_NullBelowMinimumObservations ==
    fnResult.done /\ fnArgs.fn = "compute_distribution_stats" =>
        LET arr == FilterValid(fnArgs.values)
            kept == RetainedSamples(fnArgs)
        IN  /\ fnResult.stats = None <=>
                   (Len(arr) < 21 \/ Len(kept) < 21)
            /\ fnResult.stats # None =>
                   /\ fnResult.stats.n_observations >= 21
                   /\ fnResult.stats.n_observations = Len(kept)
                   /\ 2 * fnResult.stats.min_val <= fnResult.stats.median2
                   /\ fnResult.stats.median2 <= 2 * fnResult.stats.max_val

\* the dates compute_baseline may use: those of the rows dated within
\* [as_of_date - 1.5 * lookback_days, as_of_date] that have fewer than
\* lookback_days later rows in that range
UsedDates(args) ==
    LET all == {args.df.dates[i] : i \in 1..Len(args.df.dates)}
        as_of == IF args.as_of_date = 0
                 THEN CHOOSE d \in all : \A e \in all : e <= d
                 ELSE args.as_of_date
        in_range == {d \in all : 2 * d >= 2 * as_of - 3 * args.lookback_days
                                   /\ d <= as_of}
    IN  {d \in in_range :
            Cardinality({e \in in_range : e > d}) < args.lookback_days}

\* C27: compute_baseline uses only the rows dated within
\* [as_of_date - 1.5 * lookback_days, as_of_date], and of those only the
\* lookback_days most recent; it returns null when fewer than min_observations
\* such rows exist, and a non-null baseline has min_observations <=
\* observation_count <= lookback_days and data_start_date <= data_end_date <=
\* baseline_date.
C27_WindowSelection ==
    (fnResult.done /\ fnArgs.fn = "compute_baseline" /\ fnArgs.df.dates # <<>>) =>
        LET b == fnResult.baseline
            used == UsedDates(fnArgs)
        IN  /\ Cardinality(used) < fnArgs.min_observations => b = None
            /\ b # None =>
                 /\ b.observation_count = Cardinality(used)
                 /\ b.data_start_date \in used
                 /\ b.data_end_date \in used
                 /\ \A d \in used : b.data_start_date <= d /\ d <= b.data_end_date
                 /\ fnArgs.df.kinds["gex"] = "num" =>
                      /\ b.greeks.gex.n_observations = Cardinality(used)
                      /\ b.greeks.gex.min_val \in used
                      /\ b.greeks.gex.max_val \in used
                 /\ fnArgs.min_observations <= b.observation_count
                 /\ b.observation_count <= fnArgs.lookback_days
                 /\ b.data_start_date <= b.data_end_date
                 /\ b.data_end_date <= b.baseline_date

\* 60 days of history, as of day 45, 30 days of lookback: days 16..45 are used
C27_Witness ==
    /\ fnResult.done
    /\ fnArgs.fn = "compute_baseline"
    /\ Len(fnArgs.df.dates) = 60
    /\ fnArgs.as_of_date = 45
    /\ fnArgs.lookback_days = 30
    /\ fnResult.baseline # None
    /\ fnResult.baseline.observation_count = 30
    /\ fnResult.baseline.data_start_date = 16
    /\ fnResult.baseline.data_end_date = 45

\* a column the frame has, with a number in every row
HasData(df, col) == df.kinds[col] \in {"num", "zero"}

\* C28: the baseline is null whenever the GEX distribution cannot be
\* computed; the absence of block count, block size, block premium, venue
\* shift, DEX or a price-efficiency input never makes the baseline null (the
\* slot holds a canned distribution); the vanna, charm and IV distributions
\* are null whenever their source data is absent.
C28_MissingInputPolicy ==
    (fnResult.done /\ fnArgs.fn = "compute_baseline" /\ fnArgs.df.dates # <<>>) =>
        LET b == fnResult.baseline
            df == fnArgs.df
            enough == Cardinality(UsedDates(fnArgs)) >= fnArgs.min_observations
                        /\ Cardinality(UsedDates(fnArgs)) >= MIN_OBSERVATIONS
            dark_share == \/ HasData(df, "dark_pool_ratio")
                          \/ HasData(df, "dark_pool_volume")
                               /\ df.kinds["total_volume"] = "num"
        IN  /\ ~HasData(df, "gex") => b = None
            /\ (df.has_date /\ enough /\ HasData(df, "gex") /\ dark_share)
                  => b # None
            /\ b # None =>
                 /\ \A slot \in {"daily_block_count", "block_size",
                                 "block_premium", "venue_shift"} :
                        b.dark_pool[slot] # None
                 /\ ~HasData(df, "block_trade_count")
                      => "canned" \in DOMAIN b.dark_pool.daily_block_count
                 /\ ~HasData(df, "block_trade_size_avg")
                      => "canned" \in DOMAIN b.dark_pool.block_size
                 /\ ~HasData(df, "block_premium")
                      => "canned" \in DOMAIN b.dark_pool.block_premium
                 /\ ~HasData(df, "venue_shift")
                      => "canned" \in DOMAIN b.dark_pool.venue_shift
                 /\ b.greeks.dex # None
                 /\ ~HasData(df, "dex") => "canned" \in DOMAIN b.greeks.dex
                 /\ \A slot \in {"range_per_volume", "range_per_volume_pct",
                                 "impact_per_volume", "price_efficiency",
                                 "daily_range_pct", "close_position"} :
                        b.price_efficiency[slot] # None
                 /\ ~HasData(df, "price_efficiency") =>
                        \A slot \in {"range_per_volume", "impact_per_volume",
                                     "price_efficiency", "daily_range_pct",
                                     "close_position"} :
                            "canned" \in DOMAIN b.price_efficiency[slot]
                 /\ \A c \in {"vanna", "charm", "iv_atm", "iv_skew", "iv_rank"} :
                        ~HasData(df, c) => b.greeks[c] = None
                 /\ ~HasData(df, "iv_atm") => b.greeks.iv_atm_daily_change = None

\* a frame with dark share and GEX only: a baseline with canned block, venue,
\* DEX and price-efficiency slots and no vanna
C28_Witness ==
    /\ fnResult.done
    /\ fnArgs.fn = "compute_baseline"
    /\ \A c \in {"block_trade_count", "block_trade_size_avg", "block_premium",
                 "venue_shift", "dex", "vanna", "iv_atm", "price_efficiency"} :
           fnArgs.df.kinds[c] = "absent"
    /\ fnResult.baseline # None
    /\ "canned" \in DOMAIN fnResult.baseline.dark_pool.daily_block_count
    /\ "canned" \in DOMAIN fnResult.baseline.greeks.dex
    /\ "canned" \in DOMAIN fnResult.baseline.price_efficiency.price_efficiency
    /\ fnResult.baseline.greeks.vanna = None

\* the warnings check_baseline_drift returned for a metric
ReturnedFor(metric_name) ==
    SelectSeq(fnResult.result.warnings, LAMBDA w : w.metric = metric_name)

IsNumber(value) == "kind" \in DOMAIN value /\ value.kind = "num"

\* one returned warning for each metric whose change from a non-zero old
\* value exceeds the threshold, none for the metrics within the threshold or
\* missing on either side
DriftWarningsExact ==
    (fnResult.done /\ fnArgs.fn = "check_baseline_drift") =>
        \A i \in 1..Len(metrics_to_check) :
            LET old == _get_nested_value(fnArgs.old_baseline,
                                         metrics_to_check[i].path)
                new == _get_nested_value(fnArgs.new_baseline,
                                         metrics_to_check[i].path)
                returned == ReturnedFor(metrics_to_check[i].name)
            IN  /\ (IsNumber(old) /\ IsNumber(new) /\ old.v # 0) =>
                      IF Abs(new.v - old.v) * 100
                           > fnArgs.threshold_pct * Abs(old.v)
                      THEN /\ Len(returned) = 1
                           /\ returned[1].old_value = old
                           /\ returned[1].new_value = new
                           /\ returned[1].threshold_pct = fnArgs.threshold_pct
                      ELSE returned = <<>>
                /\ (old = None \/ new = None) => returned = <<>>

\* a metric that moved away from exactly zero is among the returned warnings
ZeroMoveReturned ==
    (fnResult.done /\ fnArgs.fn = "check_baseline_drift") =>
        \A i \in 1..Len(metrics_to_check) :
            LET old == _get_nested_value(fnArgs.old_baseline,
                                         metrics_to_check[i].path)
                new == _get_nested_value(fnArgs.new_baseline,
                                         metrics_to_check[i].path)
            IN  (old = Num(0) /\ IsNumber(new) /\ new.v # 0)
                    => ReturnedFor(metrics_to_check[i].name) # <<>>

\* C29: check_baseline_drift returns one warning for each monitored metric
\* whose percentage change exceeds the threshold in absolute value and none
\* for metrics within it or missing on either side; a metric whose old value
\* is exactly zero and whose new value is not is made visible to the caller;
\* no input makes the call raise a division-by-zero error.
C29_DriftWarnings ==
    /\ DriftWarningsExact
    /\ ZeroMoveReturned
    /\ fnResult.done /\ fnArgs.fn = "check_baseline_drift"
         => fnResult.result.outcome = "return"

\* a _request call on an initialized client that has passed its first step
RequestRunning == "pc" \in DOMAIN fnResult /\ fnArgs.client

\* an attempt outcome after which the loop is to go round again
Retryable(o) ==
    \/ o.kind = "RequestError"
    \/ o.kind = "response" /\ (o.status = 429 \/ o.status >= 500)

\* at most max_retries HTTP attempts; none at all on a cache hit, whose
\* content is what the call returns
RequestAttemptsBounded ==
    RequestRunning =>
        /\ fnResult.attempts <= fnArgs.max_retries
        /\ (fnArgs.cache_key_parts /\ fnArgs.cached # None) =>
              /\ fnResult.attempts = 0
              /\ fnResult.pc = "returned"
              /\ fnResult.data = fnArgs.cached.data

\* the first successful attempt ends the call with its data, saved to the
\* cache when cache key parts were given
RequestReturnsFirstSuccess ==
    (RequestRunning /\ fnResult.attempts > 0) =>
        /\ fnResult.last.status = 200 =>
              /\ fnResult.pc = "returned"
              /\ fnResult.data = fnResult.last.data
              /\ fnArgs.cache_key_parts =>
                    fnResult.cache = [t |-> "json", data |-> fnResult.last.data]
        /\ fnResult.pc = "returned" => fnResult.last.status = 200

\* a 4xx status other than 429 ends the call at once with DataFetchError
RequestClientErrorRaises ==
    (RequestRunning /\ fnResult.attempts > 0
       /\ fnResult.last.kind = "response"
       /\ fnResult.last.status \in 400..499 /\ fnResult.last.status # 429) =>
        /\ fnResult.pc = "raised"
        /\ fnResult.exception = "DataFetchError"
        /\ fnResult.status_code = fnResult.last.status

\* after 429, 5xx and transport errors the call goes on while attempts are
\* left, and ends with DataFetchError once max_retries attempts have failed
RequestRetries ==
    (RequestRunning /\ fnResult.attempts > 0 /\ Retryable(fnResult.last)) =>
        /\ fnResult.attempts < fnArgs.max_retries => ~fnResult.done
        /\ fnResult.done =>
              /\ fnResult.attempts = fnArgs.max_retries
              /\ fnResult.pc = "raised"
              /\ fnResult.exception = "DataFetchError"

\* C30: _request always terminates after at most max_retries HTTP attempts:
\* it returns the data of the first successful attempt (saved to the cache
\* when cache key parts are given), raises DataFetchError at once on a 4xx
\* status other than 429, retries after 429, 5xx and transport errors, raises
\* DataFetchError once max_retries attempts have failed, and returns a cached
\* response with zero HTTP attempts.
C30_RequestTerminates ==
    /\ <>(fnResult.done)
    /\ [](/\ RequestAttemptsBounded
          /\ RequestReturnsFirstSuccess
          /\ RequestClientErrorRaises
          /\ RequestRetries)

====
